---- MODULE Spec2Model ----
(***************************************************************************)
(* Model of the OKX signed-request client (OKXApiService, okxApi.ts), the  *)
(* credential format validators (credentialsService.validateCredentials    *)
(* and OKXApiService.validateCredentialsFormat), the indicator and signal   *)
(* engine (QuantitativeService, quantService.ts), the credential store     *)
(* (credentialsService over the okx_credentials table) and the two         *)
(* credential forms (CredentialsConfig, ApiKeySetup).                      *)
(*                                                                         *)
(* Text that the code inspects character by character (credential fields,  *)
(* instrument ids, prices) is a sequence of one-character strings, so that *)
(* trim(), the UUID regular expression, length tests, includes() and       *)
(* split() are computed as the code computes them.  Text the code only     *)
(* passes through (venue messages, error messages) is an atomic string,    *)
(* and a template literal is the sequence of its fragments.                *)
(* The Chinese user-facing messages are rendered by ASCII strings; the     *)
(* comment next to each gives the source text.                             *)
(***************************************************************************)
EXTENDS Integers, Sequences, FiniteSets, TLC

VARIABLES
    credentials,    \* OKXApiService.credentials (null until setCredentials)
    baseURL,        \* OKXApiService.baseURL
    clock,          \* wall clock read by new Date(), in milliseconds
    call,           \* the last operation invoked on the client, with its inputs
    sent,           \* the network requests issued by that invocation, in order
    signed,         \* the signature computations made by that invocation
    result,         \* how that invocation ended: value returned or error thrown
    vIn,            \* input of the format validators (validation specification)
    vOut,           \* their two results; the last two signature computations
                    \* (signing specification)
    config,         \* QuantitativeService.config
    priceHistory,   \* QuantitativeService.priceHistory
    volumeHistory,  \* QuantitativeService.volumeHistory
    quantCall,      \* the last operation invoked on the engine: its inputs, the
                    \* engine's fields before it, and the value it returned
    signals,        \* the last two generateTradingSignal calls
    added,          \* every price and volume passed to addMarketData so far
    rows,           \* the signed-in user's rows of the okx_credentials table
    tasks,          \* the credentialsService calls in progress, one per caller
    form,           \* the React state of the credential form on screen
    flights,        \* the verifyCredentials calls awaiting their response
    verified        \* the credentials a verifyCredentials call found valid

clientVars == <<credentials, baseURL, clock, call, sent, signed, result, vIn, vOut>>
quantVars == <<config, priceHistory, volumeHistory, quantCall, signals, added>>
storeVars == <<rows, tasks>>
formVars == <<form, flights, verified>>
uiVars == <<storeVars, formVars>>
vars == <<clientVars, quantVars, uiVars>>

----------------------------------------------------------------------------
(* Bounds *)

\* the wall clock takes the values 0..MaxClock
MaxClock == 1

\* at most MaxFlights verification requests await their response at a time
MaxFlights == 2

\* at most MaxRows rows are inserted into the table
MaxRows == 2

\* a form saves at most MaxSaved times
MaxSaved == 1

----------------------------------------------------------------------------
(* Character strings *)

Rep(c, n) == [i \in 1..n |-> c]

\* white space removed by String.prototype.trim
WhiteSpace == {" ", "\t", "\n", "\r"}

RECURSIVE TrimStart(_)
TrimStart(s) ==
    IF s # <<>> /\ Head(s) \in WhiteSpace THEN TrimStart(Tail(s)) ELSE s

RECURSIVE TrimEnd(_)
TrimEnd(s) ==
    IF s # <<>> /\ s[Len(s)] \in WhiteSpace
    THEN TrimEnd(SubSeq(s, 1, Len(s) - 1))
    ELSE s

\* String.prototype.trim
Trim(s) == TrimEnd(TrimStart(s))

\* String.prototype.includes
Includes(s, sub) ==
    \E i \in 1..(Len(s) - Len(sub) + 1) : SubSeq(s, i, i + Len(sub) - 1) = sub

\* s.split(sep).length for a one-character separator
SplitLength(s, sep) == 1 + Cardinality({i \in 1..Len(s) : s[i] = sep})

\* a template literal: does the fragment occur in it
Contains(template, fragment) == \E i \in 1..Len(template) : template[i] = fragment

----------------------------------------------------------------------------
(* Credential format validation *)

\* [0-9a-f] under the i flag
HexDigit == {"0", "1", "2", "3", "4", "5", "6", "7", "8", "9",
             "a", "b", "c", "d", "e", "f", "A", "B", "C", "D", "E", "F"}

UuidLength == 36
UuidDashAt == {9, 14, 19, 24}
MinSecretKeyLength == 20
MinPassphraseLength == 1
MaxPassphraseLength == 30

\* /^[0-9a-f]{8}-[0-9a-f]{4}-[0-9a-f]{4}-[0-9a-f]{4}-[0-9a-f]{12}$/i .test(s)
ApiKeyPatternTest(s) ==
    /\ Len(s) = UuidLength
    /\ \A i \in 1..Len(s) :
          IF i \in UuidDashAt THEN s[i] = "-" ELSE s[i] \in HexDigit

\* '请确保所有字段都已填写完整'
ErrIncomplete == "all fields must be filled in"
\* 'API Key格式不正确，应为UUID格式' (credentialsService)
ErrApiKeyFormatService == "API Key format incorrect, must be UUID format"
\* 'API Key格式不正确，应为UUID格式（例如：12345678-1234-1234-1234-123456789abc）'
ErrApiKeyFormatClient ==
    "API Key format incorrect, must be UUID format (e.g. 12345678-1234-1234-1234-123456789abc)"
\* 'Secret Key长度不正确，请检查是否完整复制'
ErrSecretKeyLength == "Secret Key length incorrect, check it was copied completely"
\* 'Passphrase长度应在1-30个字符之间'
ErrPassphraseLength == "Passphrase length must be between 1 and 30 characters"

\* { isValid: true } and { isValid: false, error }; the error is a template
\* (sequence of fragments), empty when the property is absent
Valid == [isValid |-> TRUE, error |-> <<>>]
Invalid(template) == [isValid |-> FALSE, error |-> template]

\* validateCredentials with the pattern test made before the empty-field test
validateCredentials_PatternFirst(creds) ==
    LET apiKey == Trim(creds.apiKey)
        secretKey == Trim(creds.secretKey)
        passphrase == Trim(creds.passphrase)
    IN  IF ~ApiKeyPatternTest(apiKey)
        THEN Invalid(<<ErrApiKeyFormatService>>)
        ELSE IF apiKey = <<>> \/ secretKey = <<>> \/ passphrase = <<>>
        THEN Invalid(<<ErrIncomplete>>)
        ELSE IF Len(secretKey) < MinSecretKeyLength
        THEN Invalid(<<ErrSecretKeyLength>>)
        ELSE IF Len(passphrase) < MinPassphraseLength
                \/ Len(passphrase) > MaxPassphraseLength
        THEN Invalid(<<ErrPassphraseLength>>)
        ELSE Valid

\* validateCredentials with the lengths taken of the untrimmed fields
validateCredentials_NoTrim(creds) ==
    LET apiKey == Trim(creds.apiKey)
        secretKey == creds.secretKey
        passphrase == creds.passphrase
    IN  IF apiKey = <<>> \/ Trim(secretKey) = <<>> \/ Trim(passphrase) = <<>>
        THEN Invalid(<<ErrIncomplete>>)
        ELSE IF ~ApiKeyPatternTest(apiKey)
        THEN Invalid(<<ErrApiKeyFormatService>>)
        ELSE IF Len(secretKey) < MinSecretKeyLength
        THEN Invalid(<<ErrSecretKeyLength>>)
        ELSE IF Len(passphrase) < MinPassphraseLength
                \/ Len(passphrase) > MaxPassphraseLength
        THEN Invalid(<<ErrPassphraseLength>>)
        ELSE Valid

\* validateCredentialsFormat with the secret length tested before the pattern
validateCredentialsFormat_SecretFirst(creds) ==
    LET apiKey == Trim(creds.apiKey)
        secretKey == Trim(creds.secretKey)
        passphrase == Trim(creds.passphrase)
    IN  IF apiKey = <<>> \/ secretKey = <<>> \/ passphrase = <<>>
        THEN Invalid(<<ErrIncomplete>>)
        ELSE IF Len(secretKey) < MinSecretKeyLength
        THEN Invalid(<<ErrSecretKeyLength>>)
        ELSE IF ~ApiKeyPatternTest(apiKey)
        THEN Invalid(<<ErrApiKeyFormatClient>>)
        ELSE IF Len(passphrase) < MinPassphraseLength
                \/ Len(passphrase) > MaxPassphraseLength
        THEN Invalid(<<ErrPassphraseLength>>)
        ELSE Valid

\* credentialsService.validateCredentials
validateCredentials(creds) ==
    LET apiKey == Trim(creds.apiKey)
        secretKey == Trim(creds.secretKey)
        passphrase == Trim(creds.passphrase)
    IN  IF apiKey = <<>> \/ secretKey = <<>> \/ passphrase = <<>>
        THEN Invalid(<<ErrIncomplete>>)
        ELSE IF ~ApiKeyPatternTest(apiKey)
        THEN Invalid(<<ErrApiKeyFormatService>>)
        ELSE IF Len(secretKey) < MinSecretKeyLength
        THEN Invalid(<<ErrSecretKeyLength>>)
        ELSE IF Len(passphrase) < MinPassphraseLength
                \/ Len(passphrase) > MaxPassphraseLength
        THEN Invalid(<<ErrPassphraseLength>>)
        ELSE Valid

\* validateCredentialsFormat measuring the passphrase as typed, untrimmed
validateCredentialsFormat_UntrimmedPassphrase(creds) ==
    LET ui == validateCredentials(creds)
    IN  IF ui.isValid
        THEN IF Len(creds.passphrase) > MaxPassphraseLength
             THEN Invalid(<<ErrPassphraseLength>>) ELSE Valid
        ELSE IF ui.error = <<ErrApiKeyFormatService>>
        THEN Invalid(<<ErrApiKeyFormatClient>>)
        ELSE ui

\* OKXApiService.validateCredentialsFormat
validateCredentialsFormat(creds) ==
    LET apiKey == Trim(creds.apiKey)
        secretKey == Trim(creds.secretKey)
        passphrase == Trim(creds.passphrase)
    IN  IF apiKey = <<>> \/ secretKey = <<>> \/ passphrase = <<>>
        THEN Invalid(<<ErrIncomplete>>)
        ELSE IF ~ApiKeyPatternTest(apiKey)
        THEN Invalid(<<ErrApiKeyFormatClient>>)
        ELSE IF Len(secretKey) < MinSecretKeyLength
        THEN Invalid(<<ErrSecretKeyLength>>)
        ELSE IF Len(passphrase) < MinPassphraseLength
                \/ Len(passphrase) > MaxPassphraseLength
        THEN Invalid(<<ErrPassphraseLength>>)
        ELSE Valid

----------------------------------------------------------------------------
(* Inputs of the validators: credential fields on both sides of every check *)

\* '12345678-1234-1234-1234-123456789abc' (okxApi.test.ts)
KeyTest ==
    <<"1", "2", "3", "4", "5", "6", "7", "8", "-", "1", "2", "3", "4", "-",
      "1", "2", "3", "4", "-", "1", "2", "3", "4", "-",
      "1", "2", "3", "4", "5", "6", "7", "8", "9", "a", "b", "c">>
KeyUpper ==
    Rep("A", 8) \o <<"-">> \o Rep("B", 4) \o <<"-">> \o Rep("C", 4) \o <<"-">>
        \o Rep("D", 4) \o <<"-">> \o Rep("F", 12)
KeyPadded == <<" ">> \o KeyTest \o <<"\n">>
KeyNonHex == [KeyTest EXCEPT ![3] = "g"]
KeyNoDash == [KeyTest EXCEPT ![9] = "0"]
KeyShort == SubSeq(KeyTest, 1, 35)
KeyLong == KeyTest \o <<"0">>
\* 'invalid-api-key' (okxApi.test.ts)
KeyInvalid ==
    <<"i", "n", "v", "a", "l", "i", "d", "-", "a", "p", "i", "-", "k", "e", "y">>

ApiKeyInputs ==
    {<<>>, <<" ", "\t">>, KeyTest, KeyUpper, KeyPadded, KeyNonHex, KeyNoDash,
     KeyShort, KeyLong, KeyInvalid}

SecretKeyInputs ==
    {<<>>, <<" ">>, Rep("s", 19), Rep("s", 20), Rep("s", 44),
     <<" ">> \o Rep("s", 19) \o <<" ">>, <<"\t">> \o Rep("s", 20)}

PassphraseInputs ==
    {<<>>, <<"\n">>, <<"p">>, Rep("p", 30), Rep("p", 31),
     Rep("p", 30) \o <<" ">>, <<" ">> \o Rep("p", 31)}

CredentialInputs ==
    [apiKey : ApiKeyInputs, secretKey : SecretKeyInputs,
     passphrase : PassphraseInputs, sandbox : BOOLEAN]

NotValidated == [ran |-> FALSE]

----------------------------------------------------------------------------
(* JavaScript values that the client receives from outside *)

\* a value with its type tag; v is the text String(value) gives
Str(v) == [t |-> "str", v |-> v]
Num(v) == [t |-> "num", v |-> v]
Undefined == [t |-> "undef", v |-> "undefined"]

\* ToBoolean
Truthy(x) ==
    \/ x.t = "str" /\ x.v # ""
    \/ x.t = "num" /\ x.v # "0"

\* x === 'text' and x === 123
StrictEqStr(x, text) == x.t = "str" /\ x.v = text
StrictEqNum(x, digits) == x.t = "num" /\ x.v = digits

\* x || fallback, inside a template literal
OrElse(x, fallback) == IF Truthy(x) THEN x.v ELSE fallback

\* an array, or undefined where an array was expected
Arr(items) == [t |-> "arr", items |-> items]
NoArr == [t |-> "undef", items |-> <<>>]

\* characters joined into one string
RECURSIVE Join(_)
Join(s) == IF s = <<>> THEN "" ELSE Head(s) \o Join(Tail(s))

Null == [null |-> TRUE]

----------------------------------------------------------------------------
(* Errors and results *)

\* an Error object: message (template), code, response
NoResponse == [none |-> TRUE]
NoBody == [none |-> TRUE]
NoCode == Undefined
Error(message) ==
    [name |-> "Error", message |-> message, code |-> NoCode, response |-> NoResponse]
TypeError(message) ==
    [name |-> "TypeError", message |-> message, code |-> NoCode,
     response |-> NoResponse]
NoError == [name |-> "none"]
NoValue == [none |-> TRUE]
NoArg == [none |-> TRUE]

Return(value) == [kind |-> "return", value |-> value, error |-> NoError]
Throw(error) == [kind |-> "throw", value |-> NoValue, error |-> error]

\* the outcome of an invocation: how it ended, what it sent, what it signed
Done(res, requests, signatures) ==
    [result |-> res, sent |-> requests, signed |-> signatures]

\* the outcome of one axios call
Resolve(data) == [kind |-> "resolve", data |-> data, error |-> NoError]
Reject(error) == [kind |-> "reject", data |-> NoBody, error |-> error]
NoNet == [kind |-> "none", data |-> NoBody, error |-> NoError]

\* the venue's response envelope { code, msg, data }
Envelope(code, msg, data) == [code |-> code, msg |-> msg, data |-> data]

\* an axios error carrying an HTTP response
HttpError(status, data) ==
    [name |-> "AxiosError",
     message |-> <<"Request failed with status code ", status.v>>,
     code |-> Str("ERR_BAD_REQUEST"),
     response |-> [status |-> status, data |-> data]]

\* an axios error without a response
TransportError(code, message) ==
    [name |-> "AxiosError", message |-> <<message>>, code |-> code,
     response |-> NoResponse]

ErrCredentialsNotSet == "API credentials not set"
ErrReadOfUndefined == "Cannot read properties of undefined"

----------------------------------------------------------------------------
(* Signing and headers *)

LowerCase == <<"a", "b", "c", "d", "e", "f", "g", "h", "i", "j", "k", "l", "m",
               "n", "o", "p", "q", "r", "s", "t", "u", "v", "w", "x", "y", "z">>
UpperCase == <<"A", "B", "C", "D", "E", "F", "G", "H", "I", "J", "K", "L", "M",
               "N", "O", "P", "Q", "R", "S", "T", "U", "V", "W", "X", "Y", "Z">>

\* String.prototype.toUpperCase, on characters
ToUpperCase(s) ==
    [i \in 1..Len(s) |->
        IF \E k \in 1..Len(LowerCase) : LowerCase[k] = s[i]
        THEN UpperCase[CHOOSE k \in 1..Len(LowerCase) : LowerCase[k] = s[i]]
        ELSE s[i]]

Digit == <<"0", "1", "2", "3", "4", "5", "6", "7", "8", "9">>

\* Date.prototype.toISOString of the instant ms milliseconds after the epoch
\* (ms below one minute)
ToISOString(ms) ==
    "1970-01-01T00:00:"
        \o Digit[((ms \div 10000) % 6) + 1] \o Digit[((ms \div 1000) % 10) + 1]
        \o "."
        \o Digit[((ms \div 100) % 10) + 1] \o Digit[((ms \div 10) % 10) + 1]
        \o Digit[(ms % 10) + 1]
        \o "Z"

\* CryptoJS.enc.Base64.stringify(CryptoJS.HmacSHA256(message, key)): the MAC is
\* taken as injective in the message and the key
HmacSHA256Base64(message, key) == [hmac |-> message, key |-> key]

\* generateSignature leaving the body out of the signed message
generateSignature_NoBody(creds, timestamp, method, requestPath, body) ==
    LET message == timestamp \o Join(ToUpperCase(method)) \o requestPath
    IN  HmacSHA256Base64(message, creds.secretKey)

\* OKXApiService.generateSignature, credentials present
generateSignature(creds, timestamp, method, requestPath, body) ==
    LET message == timestamp \o Join(ToUpperCase(method)) \o requestPath \o body
    IN  HmacSHA256Base64(message, creds.secretKey)

\* one signature computation, as recorded in signed
Signing(creds, timestamp, method, requestPath, body) ==
    [timestamp |-> timestamp, method |-> method, requestPath |-> requestPath,
     body |-> body, secretKey |-> creds.secretKey,
     signature |-> generateSignature(creds, timestamp, method, requestPath, body)]

NoHeaders == [none |-> TRUE]

\* getHeaders reading the clock again for the timestamp header
getHeaders_SecondClockRead(creds, now, method, requestPath, body) ==
    LET signature == generateSignature(creds, ToISOString(now), method, requestPath, body)
    IN  [key |-> Trim(creds.apiKey),
         sign |-> signature,
         timestamp |-> ToISOString(now + 1),
         passphrase |-> Trim(creds.passphrase),
         contentType |-> "application/json"]

\* getHeaders keeping the timestamp of the first instant
getHeaders_CachedTimestamp(creds, now, method, requestPath, body) ==
    LET timestamp == ToISOString(0)
        signature == generateSignature(creds, timestamp, method, requestPath, body)
    IN  [key |-> Trim(creds.apiKey),
         sign |-> signature,
         timestamp |-> timestamp,
         passphrase |-> Trim(creds.passphrase),
         contentType |-> "application/json"]

\* OKXApiService.getHeaders, credentials present; now is the clock it reads
getHeaders(creds, now, method, requestPath, body) ==
    LET timestamp == ToISOString(now)
        signature == generateSignature(creds, timestamp, method, requestPath, body)
    IN  [key |-> Trim(creds.apiKey),
         sign |-> signature,
         timestamp |-> timestamp,
         passphrase |-> Trim(creds.passphrase),
         contentType |-> "application/json"]

\* the signature computation getHeaders makes
headersSigning(creds, now, method, requestPath, body) ==
    Signing(creds, ToISOString(now), method, requestPath, body)

MethodGet == <<"G", "E", "T">>
MethodPost == <<"P", "O", "S", "T">>

----------------------------------------------------------------------------
(* Requests *)

Timeout(ms) == [set |-> TRUE, ms |-> ms]
NoTimeout == [set |-> FALSE, ms |-> 0]

\* one call of axios.get / axios.post: the url is base followed by path
Request(method, base, path, params, body, headers, timeout) ==
    [method |-> method, base |-> base, path |-> path, params |-> params,
     body |-> body, headers |-> headers, timeout |-> timeout]

\* { instId } as request params
InstIdParam(instId) == <<[name |-> "instId", value |-> Join(instId)]>>

OkxURL == "https://us.okx.com"

BalancePath == "/api/v5/account/balance"
TickerPath == "/api/v5/market/ticker"
OrderPath == "/api/v5/trade/order"
ConfigPath == "/api/v5/account/config"
OrderHistoryPath == "/api/v5/trade/orders-history-archive"

VerifyTimeoutMs == 15000
TickerTimeoutMs == 10000
BalanceTimeoutMs == 15000

----------------------------------------------------------------------------
(* verifyCredentials *)

\* `API错误: ${msg || 'API密钥验证失败'} (错误代码: ${code})`
ErrApiPrefix == "API error: "
ErrVerifyDefault == "API key verification failed"
ErrCodeOpen == " (error code: "
ErrClose == ")"
\* `认证失败: ${msg || 'API密钥不存在或无效，请检查API密钥是否正确复制'}`
ErrAuthPrefix == "Authentication failed: "
ErrAuthDefault == "API key does not exist or is invalid, check it was copied correctly"
\* 'API密钥缺少必要权限，请确保已开启读取权限'
ErrPermission == "API key lacks the required permission, enable read permission"
\* `API错误: ${msg || '验证失败'} (状态码: ${status})`
ErrStatusDefault == "verification failed"
ErrStatusOpen == " (status code: "
\* '网络连接失败，请检查网络设置'
ErrNetworkFailure == "Network connection failed, check the network settings"
\* '网络错误：可能是CORS限制。OKX API通常不支持直接从浏览器访问，建议使用服务器端代理或测试工具。'
ErrNetworkCors == "Network error: possibly a CORS restriction"
\* `验证过程中发生错误: ${error.message}`
ErrVerifyGenericPrefix == "An error occurred during verification: "

\* errorData?.msg
OptionalMsg(data) == IF data = NoBody THEN Undefined ELSE data.msg

\* verifyCatch with status 403 not told apart from the other statuses
verifyCatch_No403(error) ==
    IF error.response # NoResponse
    THEN LET errorData == error.response.data
             status == error.response.status
         IN  IF StrictEqNum(status, "401")
             THEN Invalid(<<ErrAuthPrefix, OrElse(OptionalMsg(errorData), ErrAuthDefault)>>)
             ELSE Invalid(<<ErrApiPrefix,
                            OrElse(OptionalMsg(errorData), ErrStatusDefault),
                            ErrStatusOpen, status.v, ErrClose>>)
    ELSE IF StrictEqStr(error.code, "ENOTFOUND") \/ StrictEqStr(error.code, "ETIMEDOUT")
    THEN Invalid(<<ErrNetworkFailure>>)
    ELSE IF StrictEqStr(error.code, "ERR_NETWORK")
    THEN Invalid(<<ErrNetworkCors>>)
    ELSE Invalid(<<ErrVerifyGenericPrefix>> \o error.message)

\* the catch block of verifyCredentials
verifyCatch(error) ==
    IF error.response # NoResponse
    THEN LET errorData == error.response.data
             status == error.response.status
         IN  IF StrictEqNum(status, "401")
             THEN Invalid(<<ErrAuthPrefix, OrElse(OptionalMsg(errorData), ErrAuthDefault)>>)
             ELSE IF StrictEqNum(status, "403")
             THEN Invalid(<<ErrPermission>>)
             ELSE Invalid(<<ErrApiPrefix,
                            OrElse(OptionalMsg(errorData), ErrStatusDefault),
                            ErrStatusOpen, status.v, ErrClose>>)
    ELSE IF StrictEqStr(error.code, "ENOTFOUND") \/ StrictEqStr(error.code, "ETIMEDOUT")
    THEN Invalid(<<ErrNetworkFailure>>)
    ELSE IF StrictEqStr(error.code, "ERR_NETWORK")
    THEN Invalid(<<ErrNetworkCors>>)
    ELSE Invalid(<<ErrVerifyGenericPrefix>> \o error.message)

\* verifyResponse comparing the code with == instead of ===
verifyResponse_LooseCode(net) ==
    IF net.kind = "reject"
    THEN verifyCatch(net.error)
    ELSE IF net.data = NoBody
    THEN verifyCatch(TypeError(<<ErrReadOfUndefined>>))
    ELSE IF net.data.code.v = "0"
    THEN Valid
    ELSE Invalid(<<ErrApiPrefix, OrElse(net.data.msg, ErrVerifyDefault),
                   ErrCodeOpen, net.data.code.v, ErrClose>>)

\* the try block of verifyCredentials after axios.get has settled
verifyResponse(net) ==
    IF net.kind = "reject"
    THEN verifyCatch(net.error)
    ELSE IF net.data = NoBody
    THEN verifyCatch(TypeError(<<ErrReadOfUndefined>>))
    ELSE IF StrictEqStr(net.data.code, "0")
    THEN Valid
    ELSE Invalid(<<ErrApiPrefix, OrElse(net.data.msg, ErrVerifyDefault),
                   ErrCodeOpen, net.data.code.v, ErrClose>>)

\* verifyCredentials without the format validation in front of the request
verifyCredentials_NoFormatCheck(creds, base, now, net) ==
    IF creds = Null
    THEN Done(Return(Invalid(<<ErrCredentialsNotSet>>)), <<>>, <<>>)
    ELSE Done(Return(verifyResponse(net)),
              <<Request(MethodGet, base, BalancePath, <<>>, "",
                        getHeaders(creds, now, MethodGet, BalancePath, ""),
                        Timeout(VerifyTimeoutMs))>>,
              <<headersSigning(creds, now, MethodGet, BalancePath, "")>>)

\* OKXApiService.verifyCredentials; net is how its axios.get settles
verifyCredentials(creds, base, now, net) ==
    IF creds = Null
    THEN Done(Return(Invalid(<<ErrCredentialsNotSet>>)), <<>>, <<>>)
    ELSE LET formatValidation == validateCredentialsFormat(creds)
         IN  IF ~formatValidation.isValid
             THEN Done(Return(formatValidation), <<>>, <<>>)
             ELSE Done(Return(verifyResponse(net)),
                       <<Request(MethodGet, base, BalancePath, <<>>, "",
                                 getHeaders(creds, now, MethodGet, BalancePath, ""),
                                 Timeout(VerifyTimeoutMs))>>,
                       <<headersSigning(creds, now, MethodGet, BalancePath, "")>>)

----------------------------------------------------------------------------
(* placeOrder *)

\* '现货交易必须使用cash交易模式'
ErrSpotCash == "spot trading must use the cash trade mode"
\* '限价单和只做maker单必须提供价格'
ErrLimitNeedsPrice == "limit and post_only orders must provide a price"
\* '市价单不应该提供价格'
ErrMarketNoPrice == "market orders must not provide a price"
ErrPlaceOrderDefault == "Failed to place order"
\* `订单失败: ${error.response.data.msg || error.message}`
ErrOrderFailedPrefix == "Order failed: "

DashUSDT == <<"-", "U", "S", "D", "T">>
DashUSD == <<"-", "U", "S", "D">>
LimitClass == {"limit", "post_only"}

\* validateOrderParams with the price rules tested before the trade mode
validateOrderParams_PriceFirst(order) ==
    IF order.ordType \in LimitClass /\ ~Truthy(order.px)
    THEN <<ErrLimitNeedsPrice>>
    ELSE IF order.ordType = "market" /\ Truthy(order.px)
    THEN <<ErrMarketNoPrice>>
    ELSE IF /\ Includes(order.instId, DashUSDT) \/ Includes(order.instId, DashUSD)
            /\ SplitLength(order.instId, "-") = 2
            /\ order.tdMode # "cash"
    THEN <<ErrSpotCash>>
    ELSE <<>>

\* validateOrderParams asking a price of limit orders only, not of post_only
validateOrderParams_LimitOnly(order) ==
    IF /\ Includes(order.instId, DashUSDT) \/ Includes(order.instId, DashUSD)
       /\ SplitLength(order.instId, "-") = 2
       /\ order.tdMode # "cash"
    THEN <<ErrSpotCash>>
    ELSE IF order.ordType = "limit" /\ ~Truthy(order.px)
    THEN <<ErrLimitNeedsPrice>>
    ELSE IF order.ordType = "market" /\ Truthy(order.px)
    THEN <<ErrMarketNoPrice>>
    ELSE <<>>

\* validateOrderParams without the rule on market orders
validateOrderParams_NoMarketRule(order) ==
    IF /\ Includes(order.instId, DashUSDT) \/ Includes(order.instId, DashUSD)
       /\ SplitLength(order.instId, "-") = 2
       /\ order.tdMode # "cash"
    THEN <<ErrSpotCash>>
    ELSE IF order.ordType \in LimitClass /\ ~Truthy(order.px)
    THEN <<ErrLimitNeedsPrice>>
    ELSE <<>>

\* OKXApiService.validateOrderParams: the message of the error it throws, or
\* the empty template when it returns
validateOrderParams(order) ==
    IF /\ Includes(order.instId, DashUSDT) \/ Includes(order.instId, DashUSD)
       /\ SplitLength(order.instId, "-") = 2
       /\ order.tdMode # "cash"
    THEN <<ErrSpotCash>>
    ELSE IF order.ordType \in LimitClass /\ ~Truthy(order.px)
    THEN <<ErrLimitNeedsPrice>>
    ELSE IF order.ordType = "market" /\ Truthy(order.px)
    THEN <<ErrMarketNoPrice>>
    ELSE <<>>

JsonString(text) == "\"" \o text \o "\""
JsonField(name, json) == "," \o JsonString(name) \o ":" \o json
\* ...(x && { name: x }) followed by JSON.stringify
JsonOptional(name, x) ==
    IF Truthy(x) THEN JsonField(name, JsonString(x.v)) ELSE ""

\* JSON.stringify(orderData), orderData built from the order by placeOrder
\* (field values here need no escaping)
orderBody(order) ==
    "{" \o JsonString("instId") \o ":" \o JsonString(Join(order.instId))
        \o JsonField("tdMode", JsonString(order.tdMode))
        \o JsonField("side", JsonString(order.side))
        \o JsonField("ordType", JsonString(order.ordType))
        \o JsonField("sz", JsonString(order.sz))
        \o JsonOptional("px", order.px)
        \o JsonOptional("ccy", order.ccy)
        \o JsonOptional("clOrdId", order.clOrdId)
        \o JsonOptional("tag", order.tag)
        \o JsonOptional("posSide", order.posSide)
        \o (IF order.reduceOnly # Undefined
            THEN JsonField("reduceOnly", order.reduceOnly.v)
            ELSE "")
        \o "}"

\* response.data.data[0]
FirstOf(data) ==
    IF data.t = "undef"
    THEN Throw(TypeError(<<ErrReadOfUndefined>>))
    ELSE IF data.items = <<>> THEN Return(NoValue)
    ELSE Return([payload |-> Head(data.items)])

\* the catch block of placeOrder
placeOrderCatch(error) ==
    IF error.response # NoResponse
    THEN IF error.response.data = NoBody
         THEN Throw(TypeError(<<ErrReadOfUndefined>>))
         ELSE IF Truthy(error.response.data.msg)
         THEN Throw(Error(<<ErrOrderFailedPrefix, error.response.data.msg.v>>))
         ELSE Throw(Error(<<ErrOrderFailedPrefix>> \o error.message))
    ELSE Throw(error)

\* through the catch block: what was thrown inside the try is handled there
placeOrderSettle(res) ==
    IF res.kind = "throw" THEN placeOrderCatch(res.error) ELSE res

\* the try block of placeOrder after axios.post has settled
placeOrderResponse(net) ==
    IF net.kind = "reject"
    THEN Throw(net.error)
    ELSE IF net.data = NoBody
    THEN Throw(TypeError(<<ErrReadOfUndefined>>))
    ELSE IF StrictEqStr(net.data.code, "0")
    THEN FirstOf(net.data.data)
    ELSE Throw(Error(<<OrElse(net.data.msg, ErrPlaceOrderDefault)>>))

\* placeOrder validating the order before it looks at the credentials
placeOrder_ValidateFirst(creds, base, now, order, net) ==
    IF validateOrderParams(order) # <<>>
    THEN Done(placeOrderSettle(Throw(Error(validateOrderParams(order)))), <<>>, <<>>)
    ELSE IF creds = Null
    THEN Done(Throw(Error(<<ErrCredentialsNotSet>>)), <<>>, <<>>)
    ELSE LET body == orderBody(order)
         IN  Done(placeOrderSettle(placeOrderResponse(net)),
                  <<Request(MethodPost, base, OrderPath, <<>>, body,
                            getHeaders(creds, now, MethodPost, OrderPath, body),
                            NoTimeout)>>,
                  <<headersSigning(creds, now, MethodPost, OrderPath, body)>>)

\* OKXApiService.placeOrder; net is how its axios.post settles
placeOrder(creds, base, now, order, net) ==
    IF creds = Null
    THEN Done(Throw(Error(<<ErrCredentialsNotSet>>)), <<>>, <<>>)
    ELSE IF validateOrderParams(order) # <<>>
    THEN Done(placeOrderSettle(Throw(Error(validateOrderParams(order)))), <<>>, <<>>)
    ELSE LET body == orderBody(order)
         IN  Done(placeOrderSettle(placeOrderResponse(net)),
                  <<Request(MethodPost, base, OrderPath, <<>>, body,
                            getHeaders(creds, now, MethodPost, OrderPath, body),
                            NoTimeout)>>,
                  <<headersSigning(creds, now, MethodPost, OrderPath, body)>>)

----------------------------------------------------------------------------
(* getMarketData, getAccountBalance, getTradingAccount, getOrderHistory *)

ErrFetchMarketData == "Failed to fetch market data"
ErrFetchBalance == "Failed to fetch account balance"
ErrFetchTradingAccount == "Failed to fetch trading account info"
ErrFetchOrderHistory == "Failed to fetch order history"
\* '网络错误：无法连接到OKX服务器，请检查网络连接'
ErrMarketNetwork == "Network error: cannot connect to the OKX server, check the network"
\* '网络错误：无法连接到OKX服务器。OKX API可能不支持直接从浏览器访问（CORS限制）'
ErrBalanceNetwork == "Network error: cannot connect to the OKX server (CORS restriction)"

\* code === '0' ? data.data[0] : throw new Error(message)
FirstIfCodeZero(net, message) ==
    IF net.kind = "reject"
    THEN Throw(net.error)
    ELSE IF net.data = NoBody
    THEN Throw(TypeError(<<ErrReadOfUndefined>>))
    ELSE IF StrictEqStr(net.data.code, "0")
    THEN FirstOf(net.data.data)
    ELSE Throw(Error(<<message>>))

\* code === '0' && data.data.length > 0 ? data.data[0] : throw new Error(message)
FirstIfAny(net, message) ==
    IF net.kind = "reject"
    THEN Throw(net.error)
    ELSE IF net.data = NoBody
    THEN Throw(TypeError(<<ErrReadOfUndefined>>))
    ELSE IF ~StrictEqStr(net.data.code, "0")
    THEN Throw(Error(<<message>>))
    ELSE IF net.data.data.t = "undef"
    THEN Throw(TypeError(<<ErrReadOfUndefined>>))
    ELSE IF Len(net.data.data.items) > 0
    THEN Return([payload |-> Head(net.data.data.items)])
    ELSE Throw(Error(<<message>>))

\* catch: an ERR_NETWORK error is replaced, anything else is thrown again
RethrowNetwork(res, message) ==
    IF res.kind = "throw" /\ StrictEqStr(res.error.code, "ERR_NETWORK")
    THEN Throw(Error(<<message>>))
    ELSE res

\* getMarketData returning data[0] whenever the code is '0'
getMarketData_NoLengthTest(base, instId, net) ==
    Done(RethrowNetwork(FirstIfCodeZero(net, ErrFetchMarketData),
                        ErrMarketNetwork),
         <<Request(MethodGet, base, TickerPath, InstIdParam(instId), "",
                   NoHeaders, Timeout(TickerTimeoutMs))>>,
         <<>>)

\* OKXApiService.getMarketData
getMarketData(base, instId, net) ==
    Done(RethrowNetwork(FirstIfAny(net, ErrFetchMarketData), ErrMarketNetwork),
         <<Request(MethodGet, base, TickerPath, InstIdParam(instId), "",
                   NoHeaders, Timeout(TickerTimeoutMs))>>,
         <<>>)

\* getAccountBalance sending its request once more after a rejected one
getAccountBalance_Retrying(creds, base, now, net) ==
    IF creds = Null
    THEN Done(Throw(Error(<<ErrCredentialsNotSet>>)), <<>>, <<>>)
    ELSE LET request == Request(MethodGet, base, BalancePath, <<>>, "",
                                getHeaders(creds, now, MethodGet, BalancePath, ""),
                                Timeout(BalanceTimeoutMs))
             signing == headersSigning(creds, now, MethodGet, BalancePath, "")
         IN  Done(RethrowNetwork(FirstIfAny(net, ErrFetchBalance), ErrBalanceNetwork),
                  IF net.kind = "reject" THEN <<request, request>> ELSE <<request>>,
                  IF net.kind = "reject" THEN <<signing, signing>> ELSE <<signing>>)

\* OKXApiService.getAccountBalance
getAccountBalance(creds, base, now, net) ==
    IF creds = Null
    THEN Done(Throw(Error(<<ErrCredentialsNotSet>>)), <<>>, <<>>)
    ELSE Done(RethrowNetwork(FirstIfAny(net, ErrFetchBalance), ErrBalanceNetwork),
              <<Request(MethodGet, base, BalancePath, <<>>, "",
                        getHeaders(creds, now, MethodGet, BalancePath, ""),
                        Timeout(BalanceTimeoutMs))>>,
              <<headersSigning(creds, now, MethodGet, BalancePath, "")>>)

\* the try block of getTradingAccount after axios.get has settled
tradingAccountResponse(net) ==
    IF net.kind = "reject"
    THEN Throw(net.error)
    ELSE IF net.data = NoBody
    THEN Throw(TypeError(<<ErrReadOfUndefined>>))
    ELSE IF StrictEqStr(net.data.code, "0")
    THEN FirstOf(net.data.data)
    ELSE Throw(Error(<<ErrFetchTradingAccount>>))

\* OKXApiService.getTradingAccount
getTradingAccount(creds, base, now, net) ==
    IF creds = Null
    THEN Done(Throw(Error(<<ErrCredentialsNotSet>>)), <<>>, <<>>)
    ELSE Done(tradingAccountResponse(net),
              <<Request(MethodGet, base, ConfigPath, <<>>, "",
                        getHeaders(creds, now, MethodGet, ConfigPath, ""),
                        NoTimeout)>>,
              <<headersSigning(creds, now, MethodGet, ConfigPath, "")>>)

\* the try block of getOrderHistory after axios.get has settled
orderHistoryResponse(net) ==
    IF net.kind = "reject"
    THEN Throw(net.error)
    ELSE IF net.data = NoBody
    THEN Throw(TypeError(<<ErrReadOfUndefined>>))
    ELSE IF StrictEqStr(net.data.code, "0")
    THEN Return([items |-> net.data.data.items])
    ELSE Throw(Error(<<ErrFetchOrderHistory>>))

\* the optional instId argument: absent, or a string
NoInstId == [given |-> FALSE, instId |-> <<>>]
SomeInstId(instId) == [given |-> TRUE, instId |-> instId]

\* OKXApiService.getOrderHistory; instId ? { instId } : {}
getOrderHistory(creds, base, now, filter, net) ==
    IF creds = Null
    THEN Done(Throw(Error(<<ErrCredentialsNotSet>>)), <<>>, <<>>)
    ELSE Done(orderHistoryResponse(net),
              <<Request(MethodGet, base, OrderHistoryPath,
                        IF filter.given /\ filter.instId # <<>>
                        THEN InstIdParam(filter.instId) ELSE <<>>,
                        "",
                        getHeaders(creds, now, MethodGet, OrderHistoryPath, ""),
                        NoTimeout)>>,
              <<headersSigning(creds, now, MethodGet, OrderHistoryPath, "")>>)

\* OKXApiService.getHeaders called on its own
buildHeaders(creds, now, method, requestPath, body) ==
    IF creds = Null
    THEN Done(Throw(Error(<<ErrCredentialsNotSet>>)), <<>>, <<>>)
    ELSE Done(Return(getHeaders(creds, now, method, requestPath, body)),
              <<>>,
              <<headersSigning(creds, now, method, requestPath, body)>>)

----------------------------------------------------------------------------
(* QuantitativeService: numbers *)

(***************************************************************************)
(* The prices and volumes passed to addMarketData are whole numbers.       *)
(* Every number the engine derives from them is kept in fixed point: an    *)
(* integer counting hundredths (moving averages, bands, MACD, RSI,         *)
(* volatility in percent, score, confidence, the config's fractions), the  *)
(* averages and their ratio inside calculateRSI and the simple returns     *)
(* inside calculateVolatility counting ten-thousandths, and the quantity   *)
(* of a signal, a product of two hundredths, counting ten-thousandths.     *)
(* A quotient or a root that does not fall on the grid is rounded toward   *)
(* zero.                                                                   *)
(***************************************************************************)

\* the whole number n in hundredths
Fixed(n) == n * 100

\* a / b rounded toward zero, b positive
Quot(a, b) == IF a >= 0 THEN a \div b ELSE -((-a) \div b)

\* Math.abs
Abs(x) == IF x < 0 THEN -x ELSE x

\* Math.min
Min(x, y) == IF x < y THEN x ELSE y

RECURSIVE SqrtBetween(_, _, _)
SqrtBetween(n, lo, hi) ==
    IF lo >= hi THEN lo
    ELSE LET mid == (lo + hi + 1) \div 2
         IN  IF mid * mid <= n THEN SqrtBetween(n, mid, hi)
             ELSE SqrtBetween(n, lo, mid - 1)

\* Math.sqrt, rounded down
Sqrt(n) == SqrtBetween(n, 0, Min(n, 46340))

RECURSIVE SumOver(_, _, _)
\* the sum of s[lo], ..., s[hi]
SumOver(s, lo, hi) ==
    IF lo > hi THEN 0
    ELSE IF lo = hi THEN s[lo]
    ELSE LET mid == (lo + hi) \div 2
         IN  SumOver(s, lo, mid) + SumOver(s, mid + 1, hi)

\* array.reduce((a, b) => a + b, 0)
Sum(s) == SumOver(s, 1, Len(s))

\* Array.prototype.slice(start): a negative start counts from the end, and
\* -0 is 0
Slice(s, start) ==
    LET from == IF start < 0 THEN (IF Len(s) + start < 0 THEN 0 ELSE Len(s) + start)
                ELSE Min(start, Len(s))
    IN  SubSeq(s, from + 1, Len(s))

\* array.slice(0, end), end not negative
SliceTo(s, end) == SubSeq(s, 1, Min(end, Len(s)))

\* array[array.length - 1] || 0
LastOrZero(s) == IF s = <<>> THEN 0 ELSE s[Len(s)]

----------------------------------------------------------------------------
(* QuantitativeService: indicators *)

RsiPeriod == 14
EmaFastPeriod == 12
EmaSlowPeriod == 26
BollingerPeriod == 20
BollingerMultiplier == 2
VolatilityMinSamples == 20

\* calculateRSI averaging over every difference of the history
calculateRSI_AllDifferences(h, period) ==
    IF Len(h) < period + 1 THEN Fixed(50)
    ELSE LET change == [i \in 1..(Len(h) - 1) |-> h[i + 1] - h[i]]
             gains == [i \in DOMAIN change |-> IF change[i] > 0 THEN change[i] ELSE 0]
             losses == [i \in DOMAIN change |-> IF change[i] < 0 THEN Abs(change[i]) ELSE 0]
             avgGain == Quot(Sum(gains) * 10000, Len(gains))
             avgLoss == Quot(Sum(losses) * 10000, Len(losses))
         IN  IF avgLoss = 0 THEN Fixed(100)
             ELSE LET rs == Quot(avgGain * 10000, avgLoss)
                  IN  Fixed(100) - Quot(Fixed(100) * 10000, 10000 + rs)

\* calculateRSI taking the neutral value below period samples only
calculateRSI_PeriodSamples(h, period) ==
    IF Len(h) < period THEN Fixed(50)
    ELSE LET change == [i \in 1..(Len(h) - 1) |-> h[i + 1] - h[i]]
             gains == [i \in DOMAIN change |-> IF change[i] > 0 THEN change[i] ELSE 0]
             losses == [i \in DOMAIN change |-> IF change[i] < 0 THEN Abs(change[i]) ELSE 0]
             avgGain == Quot(Sum(Slice(gains, -period)) * 10000, period)
             avgLoss == Quot(Sum(Slice(losses, -period)) * 10000, period)
         IN  IF avgLoss = 0 THEN Fixed(100)
             ELSE LET rs == Quot(avgGain * 10000, avgLoss)
                  IN  Fixed(100) - Quot(Fixed(100) * 10000, 10000 + rs)

\* QuantitativeService.calculateRSI on the price history h; the two averages
\* and rs count ten-thousandths
calculateRSI(h, period) ==
    IF Len(h) < period + 1 THEN Fixed(50)
    ELSE LET change == [i \in 1..(Len(h) - 1) |-> h[i + 1] - h[i]]
             gains == [i \in DOMAIN change |-> IF change[i] > 0 THEN change[i] ELSE 0]
             losses == [i \in DOMAIN change |-> IF change[i] < 0 THEN Abs(change[i]) ELSE 0]
             avgGain == Quot(Sum(Slice(gains, -period)) * 10000, period)
             avgLoss == Quot(Sum(Slice(losses, -period)) * 10000, period)
         IN  IF avgLoss = 0 THEN Fixed(100)
             ELSE LET rs == Quot(avgGain * 10000, avgLoss)
                  IN  Fixed(100) - Quot(Fixed(100) * 10000, 10000 + rs)

\* one pass of the loop of calculateEMA: price * multiplier + ema * (1 -
\* multiplier) with multiplier 2 / (period + 1)
emaStep(period, price, ema) ==
    Quot(Fixed(price) * 2 + ema * (period - 1), period + 1)

RECURSIVE emaOver(_, _, _, _, _)
\* the loop of calculateEMA over the prices h[lo], ..., h[hi] in order,
\* entered with ema; the first half of the range is run to its value before
\* the second half starts
emaOver(h, period, lo, hi, ema) ==
    IF lo > hi THEN ema
    ELSE IF lo = hi THEN emaStep(period, h[lo], ema)
    ELSE LET mid == (lo + hi) \div 2
             half == emaOver(h, period, lo, mid, ema)
         IN  CASE half \in Int -> emaOver(h, period, mid + 1, hi, half)

\* QuantitativeService.calculateEMA
calculateEMA(h, period) ==
    IF Len(h) < period THEN Fixed(LastOrZero(h))
    ELSE emaOver(h, period, period + 1, Len(h),
                 Quot(Fixed(Sum(SliceTo(h, period))), period))

\* QuantitativeService.calculateMACD
calculateMACD(h) ==
    IF Len(h) < EmaSlowPeriod THEN [macd |-> 0, signal |-> 0, histogram |-> 0]
    ELSE LET macd == calculateEMA(h, EmaFastPeriod) - calculateEMA(h, EmaSlowPeriod)
             signal == Quot(macd * 8, 10)
         IN  [macd |-> macd, signal |-> signal, histogram |-> macd - signal]

\* calculateSMA dividing whatever samples there are by the period
calculateSMA_NoFallback(h, period) ==
    Quot(Fixed(Sum(Slice(h, -period))), period)

\* QuantitativeService.calculateSMA
calculateSMA(h, period) ==
    IF Len(h) < period THEN Fixed(LastOrZero(h))
    ELSE Quot(Fixed(Sum(Slice(h, -period))), period)

\* QuantitativeService.calculateBollingerBands; the squares and the variance
\* count ten-thousandths
calculateBollingerBands(h) ==
    IF Len(h) < BollingerPeriod
    THEN LET price == Fixed(LastOrZero(h))
         IN  [upper |-> price, middle |-> price, lower |-> price]
    ELSE LET sma == calculateSMA(h, BollingerPeriod)
             recent == Slice(h, -BollingerPeriod)
             squaredDiffs == [i \in DOMAIN recent |->
                                 (Fixed(recent[i]) - sma) * (Fixed(recent[i]) - sma)]
             variance == Quot(Sum(squaredDiffs), BollingerPeriod)
             stdDev == Sqrt(variance)
         IN  [upper |-> sma + stdDev * BollingerMultiplier,
              middle |-> sma,
              lower |-> sma - stdDev * BollingerMultiplier]

\* QuantitativeService.calculateVolatility on positive prices; the returns
\* count ten-thousandths, so the root of their variance, times 100, is the
\* percentage in hundredths
calculateVolatility(h) ==
    IF Len(h) < VolatilityMinSamples THEN 0
    ELSE LET returns == [i \in 1..(Len(h) - 1) |->
                            Quot((h[i + 1] - h[i]) * 10000, h[i])]
             avgReturn == Quot(Sum(returns), Len(returns))
             squaredDiffs == [i \in DOMAIN returns |->
                                 (returns[i] - avgReturn) * (returns[i] - avgReturn)]
             variance == Quot(Sum(squaredDiffs), Len(returns))
         IN  Sqrt(variance)

\* QuantitativeService.getMarketIndicators
getMarketIndicators(h, volumes) ==
    [rsi |-> calculateRSI(h, RsiPeriod),
     macd |-> calculateMACD(h),
     bollinger |-> calculateBollingerBands(h),
     sma |-> [sma20 |-> calculateSMA(h, 20),
              sma50 |-> calculateSMA(h, 50),
              sma200 |-> calculateSMA(h, 200)],
     volume |-> Fixed(LastOrZero(volumes)),
     volatility |-> calculateVolatility(h)]

----------------------------------------------------------------------------
(* QuantitativeService: the trading signal *)

TagRsiOversold == "RSI oversold signal"              \* RSI超卖信号
TagRsiOverbought == "RSI overbought signal"          \* RSI超买信号
TagMacdBullish == "MACD bullish signal"              \* MACD看涨信号
TagMacdBearish == "MACD bearish signal"              \* MACD看跌信号
TagNearLowerBand == "price near lower Bollinger band"   \* 价格接近布林带下轨
TagNearUpperBand == "price near upper Bollinger band"   \* 价格接近布林带上轨
TagBullishAlignment == "bullish moving-average alignment"   \* 均线多头排列
TagBearishAlignment == "bearish moving-average alignment"   \* 均线空头排列
TagHighVolatility == "high volatility environment"   \* 高波动率环境

\* what one analysis step adds to the score (hundredths) and pushes on
\* reasoning
Step(delta, tags) == [delta |-> delta, tags |-> tags]
NoStep == Step(0, <<>>)

\* RSI analysis: score +- 2
rsiStep(indicators) ==
    IF indicators.rsi < Fixed(30) THEN Step(Fixed(2), <<TagRsiOversold>>)
    ELSE IF indicators.rsi > Fixed(70) THEN Step(-Fixed(2), <<TagRsiOverbought>>)
    ELSE NoStep

\* MACD analysis: score +- 1.5
macdStep(indicators) ==
    IF indicators.macd.histogram > 0 /\ indicators.macd.macd > indicators.macd.signal
    THEN Step(150, <<TagMacdBullish>>)
    ELSE IF indicators.macd.histogram < 0
              /\ indicators.macd.macd < indicators.macd.signal
    THEN Step(-150, <<TagMacdBearish>>)
    ELSE NoStep

\* the Bollinger band analysis counting a price on the band as beyond it
bollingerStep_Inclusive(indicators, currentPrice) ==
    IF currentPrice <= indicators.bollinger.lower
    THEN Step(Fixed(1), <<TagNearLowerBand>>)
    ELSE IF currentPrice >= indicators.bollinger.upper
    THEN Step(-Fixed(1), <<TagNearUpperBand>>)
    ELSE NoStep

\* Bollinger band analysis: score +- 1
bollingerStep(indicators, currentPrice) ==
    IF currentPrice < indicators.bollinger.lower
    THEN Step(Fixed(1), <<TagNearLowerBand>>)
    ELSE IF currentPrice > indicators.bollinger.upper
    THEN Step(-Fixed(1), <<TagNearUpperBand>>)
    ELSE NoStep

\* SMA trend analysis: score +- 1
smaStep(indicators) ==
    IF indicators.sma.sma20 > indicators.sma.sma50
         /\ indicators.sma.sma50 > indicators.sma.sma200
    THEN Step(Fixed(1), <<TagBullishAlignment>>)
    ELSE IF indicators.sma.sma20 < indicators.sma.sma50
              /\ indicators.sma.sma50 < indicators.sma.sma200
    THEN Step(-Fixed(1), <<TagBearishAlignment>>)
    ELSE NoStep

\* the scoring with the volatility factor applied before the SMA analysis
scoring_DampenBeforeSma(indicators, currentPrice) ==
    LET first == <<rsiStep(indicators), macdStep(indicators),
                   bollingerStep(indicators, currentPrice)>>
        sma == smaStep(indicators)
        partial == first[1].delta + first[2].delta + first[3].delta
        tags == first[1].tags \o first[2].tags \o first[3].tags
    IN  IF indicators.volatility > Fixed(5)
        THEN [score |-> Quot(partial * 8, 10) + sma.delta,
              reasoning |-> tags \o <<TagHighVolatility>> \o sma.tags]
        ELSE [score |-> partial + sma.delta, reasoning |-> tags \o sma.tags]

\* generateTradingSignal from "let score = 0" to the volatility analysis:
\* the score and the reasoning array
scoring(indicators, currentPrice) ==
    LET steps == <<rsiStep(indicators), macdStep(indicators),
                   bollingerStep(indicators, currentPrice), smaStep(indicators)>>
        score == steps[1].delta + steps[2].delta + steps[3].delta + steps[4].delta
        reasoning == steps[1].tags \o steps[2].tags \o steps[3].tags \o steps[4].tags
    IN  IF indicators.volatility > Fixed(5)
        THEN [score |-> Quot(score * 8, 10),
              reasoning |-> reasoning \o <<TagHighVolatility>>]
        ELSE [score |-> score, reasoning |-> reasoning]

\* the action buying from a score of 2 on
signalAction_BuyAtTwo(score) ==
    IF score >= Fixed(2) THEN "buy"
    ELSE IF score < -Fixed(2) THEN "sell"
    ELSE "hold"

\* the action generateTradingSignal derives from the score
signalAction(score) ==
    IF score > Fixed(2) THEN "buy"
    ELSE IF score < -Fixed(2) THEN "sell"
    ELSE "hold"

\* Math.min(Math.abs(score) / 5, 1)
signalConfidence(score) == Min(Quot(Abs(score), 5), Fixed(1))

\* reasoning.join(', ')
RECURSIVE JoinTags(_)
JoinTags(tags) ==
    IF tags = <<>> THEN ""
    ELSE IF Len(tags) = 1 THEN tags[1]
    ELSE tags[1] \o ", " \o JoinTags(Tail(tags))

\* generateTradingSignal after it has read the indicators and the current
\* price; now is the clock it reads; the quantity, a product of two
\* hundredths, counts ten-thousandths
signalFrom(cfg, indicators, currentPrice, now) ==
    LET scored == scoring(indicators, currentPrice)
        confidence == signalConfidence(scored.score)
    IN  [action |-> signalAction(scored.score),
         confidence |-> confidence,
         price |-> currentPrice,
         quantity |-> cfg.maxPositionSize * confidence,
         reasoning |-> JoinTags(scored.reasoning),
         timestamp |-> now]

\* QuantitativeService.generateTradingSignal
generateTradingSignal(cfg, prices, volumes, now) ==
    signalFrom(cfg, getMarketIndicators(prices, volumes), Fixed(LastOrZero(prices)),
               now)

----------------------------------------------------------------------------
(* QuantitativeService: state and operations *)

DefaultLookback == 100
DefaultPredictionHorizon == 24

\* the config of the constructor; maxPositionSize 0.1, stopLoss 0.02 and
\* takeProfit 0.03 in hundredths
DefaultConfig ==
    [model |-> "ensemble",
     lookback |-> DefaultLookback,
     predictionHorizon |-> DefaultPredictionHorizon,
     riskTolerance |-> "medium",
     maxPositionSize |-> 10,
     stopLoss |-> 2,
     takeProfit |-> 3]

\* { ...this.config, ...newConfig }
updateConfig(cfg, newConfig) ==
    [k \in DOMAIN cfg |-> IF k \in DOMAIN newConfig THEN newConfig[k] ELSE cfg[k]]

\* QuantitativeService.addMarketData: the two histories it leaves
addMarketData(cfg, prices, volumes, price, volume) ==
    LET pushedPrices == Append(prices, price)
        pushedVolumes == Append(volumes, volume)
    IN  IF Len(pushedPrices) > cfg.lookback * 2
        THEN [priceHistory |-> Slice(pushedPrices, -cfg.lookback),
              volumeHistory |-> Slice(pushedVolumes, -cfg.lookback)]
        ELSE [priceHistory |-> pushedPrices, volumeHistory |-> pushedVolumes]

\* the fields of the engine
Engine(cfg, prices, volumes) ==
    [config |-> cfg, priceHistory |-> prices, volumeHistory |-> volumes]

NoTrace == [none |-> TRUE]

\* an invocation on the engine: its name and argument, the fields before it,
\* the value it returned and, for generateTradingSignal, the indicators and
\* the score it went through
QuantCall(op, arg, before, value, trace) ==
    [op |-> op, arg |-> arg, before |-> before, value |-> value, trace |-> trace]

\* new QuantitativeService()
QuantInit ==
    /\ config = DefaultConfig
    /\ priceHistory = <<>>
    /\ volumeHistory = <<>>
    /\ quantCall = QuantCall("constructor", NoArg, Engine(DefaultConfig, <<>>, <<>>),
                             NoValue, NoTrace)
    /\ signals = <<>>
    /\ added = [prices |-> <<>>, volumes |-> <<>>]

----------------------------------------------------------------------------
(* credentialsService: the okx_credentials table *)

(***************************************************************************)
(* rows holds the rows of the table whose user_id is the signed-in user's, *)
(* in the order of their insertion; supabase.auth.getUser() returns that   *)
(* user.  Every statement on the table is one atomic step of the database, *)
(* and it can fail, leaving the table as it was.                           *)
(***************************************************************************)

\* the row saveCredentials inserts; credentials.sandbox || false
Row(creds) ==
    [api_key |-> creds.apiKey, secret_key |-> creds.secretKey,
     passphrase |-> creds.passphrase, sandbox |-> creds.sandbox,
     is_active |-> TRUE]

\* { ...data, apiKey: data.api_key, secretKey: data.secret_key }
Stored(data) ==
    [api_key |-> data.api_key, secret_key |-> data.secret_key,
     passphrase |-> data.passphrase, sandbox |-> data.sandbox,
     is_active |-> data.is_active,
     apiKey |-> data.api_key, secretKey |-> data.secret_key]

\* the error object a failed statement answers with
PostgrestError(code) ==
    [name |-> "PostgrestError", message |-> <<"database error">>,
     code |-> Str(code), response |-> NoResponse]

\* .update({ is_active: false }).eq('user_id', user.id)
deactivateAll(table) == [i \in DOMAIN table |-> [table[i] EXCEPT !.is_active = FALSE]]

\* .insert({ ..., is_active: true })
insertActive(table, creds) == Append(table, Row(creds))

\* .select('*').eq('user_id', user.id).eq('is_active', true)
selectActive(table) == SelectSeq(table, LAMBDA r : r.is_active)

\* .maybeSingle(): null for no row, the row for one, an error for several
maybeSingle(found) ==
    IF found = <<>> THEN Return(Null)
    ELSE IF Len(found) = 1 THEN Return(Stored(found[1]))
    ELSE Throw(PostgrestError("PGRST116"))

\* a call of the service: the operation, the statement it is about to make,
\* its argument and, once it is done, its result
Task(op, pc, creds, res) == [op |-> op, pc |-> pc, creds |-> creds, result |-> res]
Idle == Task("none", "idle", Null, Return(NoValue))

\* no table rows, and no caller of the service
StoreInit ==
    /\ rows = <<>>
    /\ tasks = <<>>

----------------------------------------------------------------------------
(* The credential forms: React state *)

\* verificationStatus; isValid is "null", "true" or "false"
NotVerified == [isValid |-> "null", error |-> <<>>]
StatusOf(res) ==
    [isValid |-> IF res.isValid THEN "true" ELSE "false", error |-> res.error]

\* '验证过程中发生错误'
ErrVerifyThrown == "An error occurred during verification"
\* '请填写所有必需字段'
ErrFillAllFields == "Fill in all required fields"

\* useState({ apiKey: '', secretKey: '', passphrase: '', sandbox: false })
EmptyForm == [apiKey |-> <<>>, secretKey |-> <<>>, passphrase |-> <<>>, sandbox |-> FALSE]

\* the state of a form: which component it is, its fields, the verification
\* status, the verifying (isVerifying), saving and loading flags, and
\* existingCredentials present
Form(page, formData, status, verifying, saving, loading, existing) ==
    [page |-> page, formData |-> formData, verificationStatus |-> status,
     verifying |-> verifying, saving |-> saving, loading |-> loading,
     existing |-> existing]

NoForm == Form("none", EmptyForm, NotVerified, FALSE, FALSE, FALSE, FALSE)

\* formData.apiKey && formData.secretKey && formData.passphrase
isFormValid(formData) ==
    formData.apiKey # <<>> /\ formData.secretKey # <<>> /\ formData.passphrase # <<>>

\* no form on screen
FormInit ==
    /\ form = NoForm
    /\ flights = <<>>
    /\ verified = {}

UiInit == StoreInit /\ FormInit

----------------------------------------------------------------------------
(* Inputs of the client *)

\* testCredentials of okxApi.test.ts, and records failing each format check
CredsValid ==
    [apiKey |-> KeyTest, secretKey |-> Rep("s", 44), passphrase |-> Rep("p", 17),
     sandbox |-> FALSE]
CredsPadded ==
    [apiKey |-> KeyPadded, secretKey |-> <<"\t">> \o Rep("s", 20),
     passphrase |-> Rep("p", 30) \o <<" ">>, sandbox |-> TRUE]
CredsBadKey == [CredsValid EXCEPT !.apiKey = KeyInvalid]
CredsShortSecret == [CredsValid EXCEPT !.secretKey = Rep("s", 19)]
CredsNoPassphrase == [CredsValid EXCEPT !.passphrase = <<>>]
CredsLongPassphrase == [CredsValid EXCEPT !.passphrase = Rep("p", 31)]

ClientCredentialInputs ==
    {CredsValid, CredsPadded, CredsBadKey, CredsShortSecret, CredsNoPassphrase,
     CredsLongPassphrase}

InstBtcUsdt == <<"B", "T", "C", "-", "U", "S", "D", "T">>
InstBtcUsd == <<"B", "T", "C", "-", "U", "S", "D">>
InstBtcUsdtSwap == InstBtcUsdt \o <<"-", "S", "W", "A", "P">>
InstEthBtc == <<"E", "T", "H", "-", "B", "T", "C">>

InstIdInputs == {InstBtcUsdt, InstBtcUsd, InstBtcUsdtSwap, InstEthBtc}

OrderInputs ==
    [instId : InstIdInputs,
     tdMode : {"cash", "cross", "isolated"},
     side : {"buy"},
     ordType : {"market", "limit", "post_only", "ioc"},
     sz : {"1"},
     px : {Undefined, Str(""), Str("100")},
     ccy : {Undefined}, clOrdId : {Undefined}, tag : {Undefined},
     posSide : {Undefined}, reduceOnly : {Undefined}]

EnvOk == Envelope(Str("0"), Str(""), Arr(<<"row">>))
EnvOkEmpty == Envelope(Str("0"), Str(""), Arr(<<>>))
EnvOkNoData == Envelope(Str("0"), Undefined, NoArr)
EnvNumericZero == Envelope(Num("0"), Str(""), Arr(<<"row">>))
EnvRejected == Envelope(Str("50001"), Str("API key not found"), Arr(<<>>))
EnvRejectedNoMsg == Envelope(Str("50004"), Undefined, Arr(<<>>))
EnvNoCode == Envelope(Undefined, Str("maintenance"), NoArr)
EnvInvalidSignature == Envelope(Str("50113"), Str("Invalid signature"), NoArr)

\* how a request can settle, as far as any operation tells the cases apart
ResolveOutcomes ==
    {Resolve(EnvOk), Resolve(EnvOkEmpty), Resolve(EnvOkNoData),
     Resolve(EnvNumericZero), Resolve(EnvRejected), Resolve(EnvRejectedNoMsg),
     Resolve(EnvNoCode), Resolve(NoBody)}

HttpRejectOutcomes ==
    {Reject(HttpError(Num("401"), EnvInvalidSignature)),
     Reject(HttpError(Num("401"), NoBody)),
     Reject(HttpError(Num("403"), EnvRejected)),
     Reject(HttpError(Num("500"), EnvRejected)),
     Reject(HttpError(Num("429"), NoBody))}

TransportRejectOutcomes ==
    {Reject(TransportError(Str("ENOTFOUND"), "getaddrinfo ENOTFOUND")),
     Reject(TransportError(Str("ETIMEDOUT"), "connect ETIMEDOUT")),
     Reject(TransportError(Str("ERR_NETWORK"), "Network Error")),
     Reject(TransportError(Str("ECONNABORTED"), "timeout exceeded")),
     Reject(TransportError(Undefined, "Network error"))}

VerifyOutcomes == ResolveOutcomes \cup HttpRejectOutcomes \cup TransportRejectOutcomes

\* placeOrder and the fetches tell fewer cases apart
FetchOutcomes ==
    {Resolve(EnvOk), Resolve(EnvOkEmpty), Resolve(EnvOkNoData),
     Resolve(EnvRejected), Resolve(EnvRejectedNoMsg), Resolve(NoBody),
     Reject(HttpError(Num("401"), EnvInvalidSignature)),
     Reject(HttpError(Num("429"), NoBody)),
     Reject(TransportError(Str("ERR_NETWORK"), "Network Error")),
     Reject(TransportError(Str("ECONNABORTED"), "timeout exceeded"))}

\* an operation that sends nothing has no outcome to draw
OutcomesIf(sends, outcomes) == IF sends THEN outcomes ELSE {NoNet}

HeaderInputs ==
    [method : {MethodGet, <<"p", "o", "s", "t">>},
     requestPath : {BalancePath, OrderPath},
     body : {"", "{}"}]

----------------------------------------------------------------------------
(* The client *)

Call(op, arg, net) == [op |-> op, arg |-> arg, net |-> net]

\* new OKXApiService()
ClientInit ==
    /\ QuantInit
    /\ UiInit
    /\ credentials = Null
    /\ baseURL = OkxURL
    /\ clock = 0
    /\ call = Call("constructor", NoArg, NoNet)
    /\ sent = <<>>
    /\ signed = <<>>
    /\ result = Return(NoValue)

Init ==
    /\ ClientInit
    /\ vIn = CredsValid
    /\ vOut = NotValidated

\* an invocation ran to its end with this outcome
Finish(op, arg, net, outcome) ==
    /\ call' = Call(op, arg, net)
    /\ sent' = outcome.sent
    /\ signed' = outcome.signed
    /\ result' = outcome.result
    /\ UNCHANGED <<credentials, baseURL, clock, vIn, vOut>>
    /\ UNCHANGED <<quantVars, uiVars>>

\* OKXApiService.setCredentials
SetCredentials(creds) ==
    /\ credentials' = creds
    /\ baseURL' = IF creds.sandbox THEN OkxURL ELSE baseURL
    /\ call' = Call("setCredentials", NoArg, NoNet)
    /\ sent' = <<>>
    /\ signed' = <<>>
    /\ result' = Return(NoValue)
    /\ UNCHANGED <<clock, vIn, vOut>>
    /\ UNCHANGED <<quantVars, uiVars>>

\* time passes
Tick ==
    /\ clock < MaxClock
    /\ clock' = clock + 1
    /\ UNCHANGED <<credentials, baseURL, call, sent, signed, result, vIn, vOut>>
    /\ UNCHANGED <<quantVars, uiVars>>

VerifyCredentials ==
    \E net \in OutcomesIf(credentials # Null
                            /\ validateCredentialsFormat(credentials).isValid,
                          VerifyOutcomes) :
        Finish("verifyCredentials", NoArg, net,
               verifyCredentials(credentials, baseURL, clock, net))

GetMarketData ==
    \E instId \in {InstBtcUsdt, InstEthBtc} :
        \E net \in FetchOutcomes :
            Finish("getMarketData", [instId |-> instId], net,
                   getMarketData(baseURL, instId, net))

GetAccountBalance ==
    \E net \in OutcomesIf(credentials # Null, FetchOutcomes) :
        Finish("getAccountBalance", NoArg, net,
               getAccountBalance(credentials, baseURL, clock, net))

\* placeOrder on an order of the given set, settling in one of the given ways
PlaceOrder(orders, outcomes) ==
    \E order \in orders :
        \E net \in OutcomesIf(credentials # Null /\ validateOrderParams(order) = <<>>,
                              outcomes) :
            Finish("placeOrder", order, net,
                   placeOrder(credentials, baseURL, clock, order, net))

GetTradingAccount ==
    \E net \in OutcomesIf(credentials # Null, FetchOutcomes) :
        Finish("getTradingAccount", NoArg, net,
               getTradingAccount(credentials, baseURL, clock, net))

GetOrderHistory ==
    \E filter \in {NoInstId, SomeInstId(<<>>), SomeInstId(InstBtcUsdt)} :
        \E net \in OutcomesIf(credentials # Null, FetchOutcomes) :
            Finish("getOrderHistory", filter, net,
                   getOrderHistory(credentials, baseURL, clock, filter, net))

BuildHeaders ==
    \E h \in HeaderInputs :
        Finish("getHeaders", h, NoNet,
               buildHeaders(credentials, clock, h.method, h.requestPath, h.body))

\* the scenarios of the specification, an order the venue can accept of each
\* price class, and one breaking each rule
ScenarioOrders ==
    {o \in OrderInputs :
        \/ o.instId = InstBtcUsdt /\ o.tdMode = "cross" /\ o.ordType = "market"
             /\ o.px = Undefined
        \/ o.instId = InstBtcUsdt /\ o.tdMode = "cash" /\ o.ordType = "limit"
        \/ o.instId = InstBtcUsdtSwap /\ o.tdMode = "cross" /\ o.ordType = "market"
             /\ o.px # Str("")}

Next ==
    \/ \E creds \in ClientCredentialInputs : SetCredentials(creds)
    \/ Tick
    \/ VerifyCredentials
    \/ GetMarketData
    \/ GetAccountBalance
    \/ PlaceOrder(ScenarioOrders, FetchOutcomes)
    \/ GetTradingAccount
    \/ GetOrderHistory
    \/ BuildHeaders

Spec == Init /\ [][Next]_vars

----------------------------------------------------------------------------
(* The order specification: placeOrder on every order, before and after     *)
(* setCredentials                                                           *)

OrderOutcomes ==
    {Resolve(EnvOk), Resolve(EnvRejected), Resolve(NoBody),
     Reject(HttpError(Num("401"), EnvInvalidSignature)),
     Reject(TransportError(Str("ERR_NETWORK"), "Network Error"))}

OrderNext ==
    \/ SetCredentials(CredsValid)
    \/ PlaceOrder(OrderInputs, OrderOutcomes)

OrderSpec == Init /\ [][OrderNext]_vars

----------------------------------------------------------------------------
(* The validation specification: the two validators applied to any input *)

ValidateInit ==
    /\ QuantInit
    /\ UiInit
    /\ credentials = Null
    /\ baseURL = OkxURL
    /\ clock = 0
    /\ call = Call("constructor", NoArg, NoNet)
    /\ sent = <<>>
    /\ signed = <<>>
    /\ result = Return(NoValue)
    /\ vIn \in CredentialInputs
    /\ vOut = NotValidated

\* the UI validator and the client's validator run on the same record
Validate ==
    /\ vOut = NotValidated
    /\ vOut' = [ran |-> TRUE,
                service |-> validateCredentials(vIn),
                client |-> validateCredentialsFormat(vIn)]
    /\ UNCHANGED <<vIn, credentials, baseURL, clock, call, sent, signed, result>>
    /\ UNCHANGED <<quantVars, uiVars>>

\* the form is edited: another record is validated next
NewInput ==
    /\ vOut # NotValidated
    /\ vIn' \in CredentialInputs
    /\ vOut' = NotValidated
    /\ UNCHANGED <<credentials, baseURL, clock, call, sent, signed, result>>
    /\ UNCHANGED <<quantVars, uiVars>>

ValidateNext == Validate \/ NewInput

ValidateSpec == ValidateInit /\ [][ValidateNext]_vars

----------------------------------------------------------------------------
(* The signing specification: generateSignature called on any inputs, the   *)
(* last two calls kept                                                      *)

SignInputs ==
    [timestamp : {ToISOString(0), ToISOString(1)},
     method : {MethodGet, <<"g", "e", "t">>, MethodPost},
     requestPath : {BalancePath, OrderPath, OrderPath \o "{}"},
     body : {"", "{}"}]

SignInit ==
    /\ QuantInit
    /\ UiInit
    /\ credentials = Null
    /\ baseURL = OkxURL
    /\ clock = 0
    /\ call = Call("constructor", NoArg, NoNet)
    /\ sent = <<>>
    /\ signed = <<>>
    /\ result = Return(NoValue)
    /\ vIn = CredsValid
    /\ vOut = <<>>

\* generateSignature called with the credentials set; vOut keeps this call and
\* the one before
GenerateSignature ==
    /\ credentials # Null
    /\ \E in \in SignInputs :
        LET this == Signing(credentials, in.timestamp, in.method, in.requestPath,
                            in.body)
        IN  vOut' = IF vOut = <<>> THEN <<this>> ELSE <<vOut[Len(vOut)], this>>
    /\ UNCHANGED <<vIn, credentials, baseURL, clock, call, sent, signed, result>>
    /\ UNCHANGED <<quantVars, uiVars>>

\* setCredentials between two signatures; the signatures made are kept
SetSigningCredentials ==
    \E creds \in {CredsValid, CredsPadded} :
        /\ credentials' = creds
        /\ baseURL' = IF creds.sandbox THEN OkxURL ELSE baseURL
        /\ call' = Call("setCredentials", NoArg, NoNet)
        /\ UNCHANGED <<clock, sent, signed, result, vIn, vOut>>
        /\ UNCHANGED <<quantVars, uiVars>>

SignNext == GenerateSignature \/ SetSigningCredentials

SignSpec == SignInit /\ [][SignNext]_vars

----------------------------------------------------------------------------
(* The header specification: getHeaders called again and again while the    *)
(* clock runs, the last two calls kept                                      *)

\* getHeaders called with the credentials set; vOut keeps this call and the
\* one before, each with the instant of the call
GetHeaders ==
    /\ credentials # Null
    /\ \E h \in HeaderInputs :
        LET this == [at |-> clock, credentials |-> credentials,
                     method |-> h.method, requestPath |-> h.requestPath,
                     body |-> h.body,
                     headers |-> getHeaders(credentials, clock, h.method,
                                            h.requestPath, h.body)]
        IN  vOut' = IF vOut = <<>> THEN <<this>> ELSE <<vOut[Len(vOut)], this>>
    /\ UNCHANGED <<vIn, credentials, baseURL, clock, call, sent, signed, result>>
    /\ UNCHANGED <<quantVars, uiVars>>

HeaderNext == GetHeaders \/ SetSigningCredentials \/ Tick

HeaderSpec == SignInit /\ [][HeaderNext]_vars

----------------------------------------------------------------------------
(* The engine *)

\* the operation ended: what it was called with, what the engine's fields
\* were before it, and what it returned
Returned(op, arg, value, trace) ==
    quantCall' = QuantCall(op, arg, Engine(config, priceHistory, volumeHistory),
                           value, trace)

\* QuantitativeService.addMarketData
AddMarketData(prices, volumes) ==
    \E price \in prices, volume \in volumes :
        LET after == addMarketData(config, priceHistory, volumeHistory, price, volume)
        IN  /\ priceHistory' = after.priceHistory
            /\ volumeHistory' = after.volumeHistory
            /\ added' = [prices |-> Append(added.prices, price),
                         volumes |-> Append(added.volumes, volume)]
            /\ Returned("addMarketData", [price |-> price, volume |-> volume],
                        NoValue, NoTrace)
            /\ UNCHANGED <<config, signals>>
            /\ UNCHANGED <<clientVars, uiVars>>

\* QuantitativeService.updateConfig
UpdateConfig(newConfigs) ==
    \E newConfig \in newConfigs :
        /\ config' = updateConfig(config, newConfig)
        /\ Returned("updateConfig", newConfig, NoValue, NoTrace)
        /\ UNCHANGED <<priceHistory, volumeHistory, signals, added>>
        /\ UNCHANGED <<clientVars, uiVars>>

\* QuantitativeService.calculateRSI()
CalculateRSI ==
    /\ Returned("calculateRSI", NoArg,
                [rsi |-> calculateRSI(priceHistory, RsiPeriod)], NoTrace)
    /\ UNCHANGED <<config, priceHistory, volumeHistory, signals, added>>
    /\ UNCHANGED <<clientVars, uiVars>>

\* QuantitativeService.calculateMACD()
CalculateMACD ==
    /\ Returned("calculateMACD", NoArg, calculateMACD(priceHistory), NoTrace)
    /\ UNCHANGED <<config, priceHistory, volumeHistory, signals, added>>
    /\ UNCHANGED <<clientVars, uiVars>>

\* QuantitativeService.calculateEMA(period)
CalculateEMA(periods) ==
    \E period \in periods :
        /\ Returned("calculateEMA", [period |-> period],
                    [ema |-> calculateEMA(priceHistory, period)], NoTrace)
        /\ UNCHANGED <<config, priceHistory, volumeHistory, signals, added>>
        /\ UNCHANGED <<clientVars, uiVars>>

\* QuantitativeService.calculateSMA(period)
CalculateSMA(periods) ==
    \E period \in periods :
        /\ Returned("calculateSMA", [period |-> period],
                    [sma |-> calculateSMA(priceHistory, period)], NoTrace)
        /\ UNCHANGED <<config, priceHistory, volumeHistory, signals, added>>
        /\ UNCHANGED <<clientVars, uiVars>>

\* QuantitativeService.calculateBollingerBands()
CalculateBollingerBands ==
    /\ Returned("calculateBollingerBands", NoArg,
                calculateBollingerBands(priceHistory), NoTrace)
    /\ UNCHANGED <<config, priceHistory, volumeHistory, signals, added>>
    /\ UNCHANGED <<clientVars, uiVars>>

\* QuantitativeService.calculateVolatility()
CalculateVolatility ==
    /\ Returned("calculateVolatility", NoArg,
                [volatility |-> calculateVolatility(priceHistory)], NoTrace)
    /\ UNCHANGED <<config, priceHistory, volumeHistory, signals, added>>
    /\ UNCHANGED <<clientVars, uiVars>>

\* QuantitativeService.getMarketIndicators
GetMarketIndicators ==
    /\ Returned("getMarketIndicators", NoArg,
                getMarketIndicators(priceHistory, volumeHistory), NoTrace)
    /\ UNCHANGED <<config, priceHistory, volumeHistory, signals, added>>
    /\ UNCHANGED <<clientVars, uiVars>>

\* generateTradingSignal taking the oldest sample off the price history as it
\* reads it
GenerateTradingSignal_Shifting ==
    LET indicators == getMarketIndicators(priceHistory, volumeHistory)
        currentPrice == Fixed(LastOrZero(priceHistory))
        signal == generateTradingSignal(config, priceHistory, volumeHistory, clock)
        this == [engine |-> Engine(config, priceHistory, volumeHistory),
                 signal |-> signal]
    IN  /\ Returned("generateTradingSignal", NoArg, signal,
                    [indicators |-> indicators,
                     score |-> scoring(indicators, currentPrice).score])
        /\ signals' = IF signals = <<>> THEN <<this>>
                      ELSE <<signals[Len(signals)], this>>
        /\ priceHistory' = Slice(priceHistory, 1)
        /\ UNCHANGED <<config, volumeHistory, added>>
        /\ UNCHANGED <<clientVars, uiVars>>

\* QuantitativeService.generateTradingSignal; the record of the call keeps the
\* indicators it read and the score it reached, and signals keeps this call
\* and the one before
GenerateTradingSignal ==
    LET indicators == getMarketIndicators(priceHistory, volumeHistory)
        currentPrice == Fixed(LastOrZero(priceHistory))
        signal == generateTradingSignal(config, priceHistory, volumeHistory, clock)
        this == [engine |-> Engine(config, priceHistory, volumeHistory),
                 signal |-> signal]
    IN  /\ Returned("generateTradingSignal", NoArg, signal,
                    [indicators |-> indicators,
                     score |-> scoring(indicators, currentPrice).score])
        /\ signals' = IF signals = <<>> THEN <<this>>
                      ELSE <<signals[Len(signals)], this>>
        /\ UNCHANGED <<config, priceHistory, volumeHistory, added>>
        /\ UNCHANGED <<clientVars, uiVars>>

\* time passes between two calls on the engine
QuantTick ==
    /\ clock < MaxClock
    /\ clock' = clock + 1
    /\ UNCHANGED <<credentials, baseURL, call, sent, signed, result, vIn, vOut>>
    /\ UNCHANGED <<quantVars, uiVars>>

----------------------------------------------------------------------------
(* The history specification: addMarketData and updateConfig from the new   *)
(* engine on                                                                *)

\* at most MaxSamples samples are added
MaxSamples == 5

PriceInputs == {1, 2}
VolumeInputs == {10, 20}
LookbackInputs == {0, 1, 2}

\* one more sample arrives
AddSample ==
    /\ Len(added.prices) < MaxSamples
    /\ AddMarketData(PriceInputs, VolumeInputs)

\* the window is reconfigured
SetLookback == UpdateConfig({[lookback |-> n] : n \in LookbackInputs})

HistoryNext == AddSample \/ SetLookback

HistorySpec == Init /\ [][HistoryNext]_vars

----------------------------------------------------------------------------
(* The signal specification: the indicators and the signal computed on the  *)
(* histories of a family, under two position sizes                          *)

\* n prices from first on, each step above the one before
Ramp(n, first, step) == [i \in 1..n |-> first + (i - 1) * step]

\* a first run of n1 prices from 200 on, a second run of n2 prices, and a
\* last price jumping by spike, if not 0
Shape(n1, a, n2, b, spike) ==
    LET one == Ramp(n1, 200, a)
        from == IF n1 = 0 THEN 200 ELSE one[n1] + b
        two == one \o Ramp(n2, from, b)
    IN  IF spike = 0 THEN two
        ELSE Append(two, (IF two = <<>> THEN 200 ELSE two[Len(two)]) + spike)

HistoryInputs ==
    {Shape(n1, a, n2, b, spike) :
        n1 \in {0, 6, 30}, a \in {-1, 0, 1},
        n2 \in {0, 8, 13, 15, 26}, b \in {-2, 0, 2},
        spike \in {0, 60, -60}}

\* the engine after the samples of a history were added one by one
SignalInit ==
    /\ credentials = Null
    /\ baseURL = OkxURL
    /\ clock = 0
    /\ call = Call("constructor", NoArg, NoNet)
    /\ sent = <<>>
    /\ signed = <<>>
    /\ result = Return(NoValue)
    /\ vIn = CredsValid
    /\ vOut = NotValidated
    /\ UiInit
    /\ config = DefaultConfig
    /\ priceHistory \in HistoryInputs
    /\ volumeHistory = [i \in 1..Len(priceHistory) |-> 10]
    /\ added = [prices |-> priceHistory, volumes |-> volumeHistory]
    /\ quantCall = QuantCall("addMarketData", NoArg, Engine(DefaultConfig, <<>>, <<>>),
                             NoValue, NoTrace)
    /\ signals = <<>>

\* the position size is raised to 0.25
SetMaxPositionSize == UpdateConfig({[maxPositionSize |-> 25]})

SignalNext ==
    \/ GenerateTradingSignal
    \/ GetMarketIndicators
    \/ SetMaxPositionSize
    \/ QuantTick

SignalSpec == SignalInit /\ [][SignalNext]_vars

----------------------------------------------------------------------------
(* The indicator specification: each indicator computed on the histories of *)
(* the family, the moving averages over the periods the engine uses and a   *)
(* short one                                                                *)

EmaPeriodInputs == {EmaFastPeriod, EmaSlowPeriod}
SmaPeriodInputs == {5, 20, 50, 200}

IndicatorNext ==
    \/ CalculateMACD
    \/ CalculateEMA(EmaPeriodInputs)
    \/ CalculateSMA(SmaPeriodInputs)
    \/ CalculateBollingerBands
    \/ CalculateVolatility

IndicatorSpec == SignalInit /\ [][IndicatorNext]_vars

----------------------------------------------------------------------------
(* The RSI specification: calculateRSI on the histories of the family *)

RsiNext == CalculateRSI

RsiSpec == SignalInit /\ [][RsiNext]_vars

----------------------------------------------------------------------------
(* The credential store *)

\* a statement succeeds or fails
StatementOutcomes == BOOLEAN

\* the caller is between two calls of the service
AtRest(p) == tasks[p].pc \in {"idle", "done"}

\* the next statement of the caller's call is this one
About(p, op, pc) == tasks[p].op = op /\ tasks[p].pc = pc

\* the caller's call goes on to its next statement, or ends with a result
GoOn(p, pc) == tasks' = [tasks EXCEPT ![p].pc = pc]
End(p, res) == tasks' = [tasks EXCEPT ![p].pc = "done", ![p].result = res]

\* credentialsService.getUserCredentials is called
GetUserCredentials(p) ==
    /\ UNCHANGED <<clientVars, quantVars, formVars>>
    /\ AtRest(p)
    /\ tasks' = [tasks EXCEPT ![p] = Task("getUserCredentials", "select", Null,
                                          Return(NoValue))]
    /\ UNCHANGED rows

\* its select ... maybeSingle(), and its return
SelectActive(p) ==
    /\ UNCHANGED <<clientVars, quantVars, formVars>>
    /\ About(p, "getUserCredentials", "select")
    /\ \E ok \in StatementOutcomes :
            End(p, IF ok THEN maybeSingle(selectActive(rows))
                   ELSE Throw(PostgrestError("08006")))
    /\ UNCHANGED rows

\* credentialsService.saveCredentials is called
SaveCredentials(p, creds) ==
    /\ UNCHANGED <<clientVars, quantVars, formVars>>
    /\ AtRest(p)
    /\ tasks' = [tasks EXCEPT ![p] = Task("saveCredentials", "update", creds,
                                          Return(NoValue))]
    /\ UNCHANGED rows

\* its update of the existing rows; the answer is not looked at
SaveUpdate(p) ==
    /\ UNCHANGED <<clientVars, quantVars, formVars>>
    /\ About(p, "saveCredentials", "update")
    /\ \E ok \in StatementOutcomes :
            rows' = IF ok THEN deactivateAll(rows) ELSE rows
    /\ GoOn(p, "insert")

\* its insert of the new row, and its return
SaveInsert(p) ==
    /\ UNCHANGED <<clientVars, quantVars, formVars>>
    /\ About(p, "saveCredentials", "insert")
    /\ \E ok \in StatementOutcomes :
            IF ok
            THEN /\ rows' = insertActive(rows, tasks[p].creds)
                 /\ End(p, Return(Stored(Row(tasks[p].creds))))
            ELSE /\ rows' = rows
                 /\ End(p, Throw(PostgrestError("08006")))

\* credentialsService.deleteCredentials is called
DeleteCredentials(p) ==
    /\ UNCHANGED <<clientVars, quantVars, formVars>>
    /\ AtRest(p)
    /\ tasks' = [tasks EXCEPT ![p] = Task("deleteCredentials", "update", Null,
                                          Return(NoValue))]
    /\ UNCHANGED rows

\* its update of the existing rows, and its return
DeleteUpdate(p) ==
    /\ UNCHANGED <<clientVars, quantVars, formVars>>
    /\ About(p, "deleteCredentials", "update")
    /\ \E ok \in StatementOutcomes :
            IF ok
            THEN /\ rows' = deactivateAll(rows)
                 /\ End(p, Return(NoValue))
            ELSE /\ rows' = rows
                 /\ End(p, Throw(PostgrestError("08006")))

----------------------------------------------------------------------------
(* The store specification: one user signed in on two sessions, each        *)
(* calling the service, the statements of their calls interleaved           *)

Sessions == {"first", "second"}

SavedInputs == {CredsValid, CredsPadded}

\* the saves that have not made their insert yet
SavesUnderWay ==
    {p \in DOMAIN tasks : tasks[p].op = "saveCredentials" /\ ~AtRest(p)}

StoreSpecInit ==
    /\ QuantInit
    /\ FormInit
    /\ credentials = Null
    /\ baseURL = OkxURL
    /\ clock = 0
    /\ call = Call("constructor", NoArg, NoNet)
    /\ sent = <<>>
    /\ signed = <<>>
    /\ result = Return(NoValue)
    /\ vIn = CredsValid
    /\ vOut = NotValidated
    /\ rows = <<>>
    /\ tasks = [p \in Sessions |-> Idle]

\* one more save, while fewer than MaxRows rows are there or on their way
SaveSome(p) ==
    /\ Len(rows) + Cardinality(SavesUnderWay) < MaxRows
    /\ \E creds \in SavedInputs : SaveCredentials(p, creds)

StoreNext ==
    \/ \E p \in Sessions : GetUserCredentials(p)
    \/ \E p \in Sessions : SelectActive(p)
    \/ \E p \in Sessions : SaveSome(p)
    \/ \E p \in Sessions : SaveUpdate(p)
    \/ \E p \in Sessions : SaveInsert(p)
    \/ \E p \in Sessions : DeleteCredentials(p)
    \/ \E p \in Sessions : DeleteUpdate(p)

StoreSpec == StoreSpecInit /\ [][StoreNext]_vars

----------------------------------------------------------------------------
(* The credential forms *)

\* the form calls the service as this caller, one call at a time
Page == "page"

\* the form is on screen and takes input
Shown(page) == form.page = page /\ ~form.loading

\* the handlers of the form leave the client's record of its last invocation,
\* the clock, the validators' record and the engine alone
FormOnly == UNCHANGED <<clock, call, sent, signed, result, vIn, vOut, quantVars>>

\* handleInputChange(field, value) of either form: the field is replaced and
\* the status is back to not verified; ApiKeySetup keeps isVerifying inside the
\* status and so resets it too
HandleInputChange(field, values) ==
    /\ form.page # "none" /\ ~form.loading
    /\ \E value \in values :
        /\ form.formData[field] # value
        /\ form' = [form EXCEPT !.formData[field] = value,
                                !.verificationStatus = NotVerified,
                                !.verifying = IF form.page = "ApiKeySetup" THEN FALSE
                                              ELSE form.verifying]
    /\ UNCHANGED <<flights, verified, credentials, baseURL, storeVars>>
    /\ FormOnly

\* okxApi.setCredentials(formData) followed by okxApi.verifyCredentials() up to
\* its await: a failed format check is answered at once, otherwise the
\* request leaves with the credentials just set
StartVerification ==
    LET format == validateCredentialsFormat(form.formData)
    IN  /\ credentials' = form.formData
        /\ baseURL' = IF form.formData.sandbox THEN OkxURL ELSE baseURL
        /\ IF format.isValid
           THEN /\ form' = [form EXCEPT !.verifying = TRUE,
                                        !.verificationStatus =
                                            IF form.page = "ApiKeySetup"
                                            THEN NotVerified ELSE @]
                /\ flights' = Append(flights, [creds |-> form.formData, at |-> clock])
           ELSE /\ form' = [form EXCEPT !.verifying = FALSE,
                                        !.verificationStatus = StatusOf(format)]
                /\ flights' = flights

\* CredentialsConfig.handleVerify, from its button (shown while the status is
\* not valid, enabled while the form is filled in and not verifying)
ConfigHandleVerify ==
    /\ Shown("CredentialsConfig")
    /\ form.verificationStatus.isValid # "true"
    /\ isFormValid(form.formData) /\ ~form.verifying
    /\ Len(flights) < MaxFlights
    /\ LET validation == validateCredentials(form.formData)
       IN  IF validation.isValid
           THEN StartVerification
           ELSE /\ form' = [form EXCEPT !.verificationStatus = StatusOf(validation)]
                /\ UNCHANGED <<flights, credentials, baseURL>>
    /\ UNCHANGED <<verified, storeVars>>
    /\ FormOnly

\* ApiKeySetup.handleVerify, from its button or, while a verification is in
\* progress, from the submit button through handleSubmit
SetupHandleVerify ==
    /\ Shown("ApiKeySetup")
    /\ form.verificationStatus.isValid # "true"
    /\ isFormValid(form.formData)
    /\ Len(flights) < MaxFlights
    /\ IF ~isFormValid(form.formData)
       THEN /\ form' = [form EXCEPT !.verifying = FALSE,
                                    !.verificationStatus =
                                        StatusOf(Invalid(<<ErrFillAllFields>>))]
            /\ UNCHANGED <<flights, credentials, baseURL>>
       ELSE StartVerification
    /\ UNCHANGED <<verified, storeVars>>
    /\ FormOnly

\* the response of a verification request arrives: verifyCredentials returns
\* and handleVerify sets the status from what it returned
VerifySettled(outcomes) ==
    /\ form.page # "none"
    /\ \E i \in DOMAIN flights, net \in outcomes :
        LET flight == flights[i]
            res == verifyCredentials(flight.creds, baseURL, flight.at, net).result
            status == IF res.kind = "return" THEN StatusOf(res.value)
                      ELSE StatusOf(Invalid(<<ErrVerifyThrown>>))
        IN  /\ form' = [form EXCEPT !.verificationStatus = status,
                                    !.verifying = FALSE]
            /\ flights' = SubSeq(flights, 1, i - 1) \o SubSeq(flights, i + 1, Len(flights))
            /\ verified' = IF status.isValid = "true"
                           THEN verified \cup {flight.creds} ELSE verified
    /\ UNCHANGED <<credentials, baseURL, storeVars>>
    /\ FormOnly

\* CredentialsConfig.handleSave, from its button (enabled while the status is
\* valid and no save is in progress), up to the call of saveCredentials
ConfigHandleSave ==
    /\ Shown("CredentialsConfig")
    /\ form.verificationStatus.isValid = "true" /\ ~form.saving
    /\ AtRest(Page)
    /\ Len(rows) < MaxSaved
    /\ form' = [form EXCEPT !.saving = TRUE]
    /\ tasks' = [tasks EXCEPT ![Page] = Task("saveCredentials", "update",
                                             form.formData, Return(NoValue))]
    /\ UNCHANGED <<rows, flights, verified, credentials, baseURL>>
    /\ FormOnly

\* handleSave after saveCredentials: loadCredentials is called, or the
\* failure is shown
ConfigSaveSettled ==
    /\ form.page = "CredentialsConfig"
    /\ About(Page, "saveCredentials", "done")
    /\ IF tasks[Page].result.kind = "return"
       THEN /\ tasks' = [tasks EXCEPT ![Page] = Task("getUserCredentials", "select",
                                                     Null, Return(NoValue))]
            /\ form' = form
       ELSE /\ tasks' = [tasks EXCEPT ![Page] = Idle]
            /\ form' = [form EXCEPT !.saving = FALSE]
    /\ UNCHANGED <<rows, flights, verified, credentials, baseURL>>
    /\ FormOnly

\* loadCredentials after getUserCredentials, on mount and at the end of
\* handleSave: the stored credentials, if any, replace the fields
ConfigLoadSettled ==
    /\ form.page = "CredentialsConfig"
    /\ About(Page, "getUserCredentials", "done")
    /\ LET res == tasks[Page].result
           found == res.kind = "return" /\ res.value # Null
       IN  form' = [form EXCEPT
                       !.formData = IF found
                                    THEN [apiKey |-> res.value.api_key,
                                          secretKey |-> res.value.secret_key,
                                          passphrase |-> res.value.passphrase,
                                          sandbox |-> res.value.sandbox]
                                    ELSE @,
                       !.existing = IF found THEN TRUE ELSE @,
                       !.loading = FALSE,
                       !.saving = FALSE]
    /\ tasks' = [tasks EXCEPT ![Page] = Idle]
    /\ UNCHANGED <<rows, flights, verified, credentials, baseURL>>
    /\ FormOnly

\* CredentialsConfig.handleDelete, up to the call of deleteCredentials
ConfigHandleDelete ==
    /\ Shown("CredentialsConfig")
    /\ form.existing
    /\ AtRest(Page)
    /\ tasks' = [tasks EXCEPT ![Page] = Task("deleteCredentials", "update", Null,
                                             Return(NoValue))]
    /\ UNCHANGED <<form, rows, flights, verified, credentials, baseURL>>
    /\ FormOnly

\* handleDelete after deleteCredentials: the form is cleared
ConfigDeleteSettled ==
    /\ form.page = "CredentialsConfig"
    /\ About(Page, "deleteCredentials", "done")
    /\ form' = IF tasks[Page].result.kind = "return"
               THEN [form EXCEPT !.formData = EmptyForm,
                                 !.existing = FALSE,
                                 !.verificationStatus = NotVerified]
               ELSE form
    /\ tasks' = [tasks EXCEPT ![Page] = Idle]
    /\ UNCHANGED <<rows, flights, verified, credentials, baseURL>>
    /\ FormOnly

\* ApiKeySetup.handleSubmit with a valid status: onCredentialsSet(formData),
\* which is Index.handleCredentialsSet, up to its call of saveCredentials
SetupHandleSubmit ==
    /\ Shown("ApiKeySetup")
    /\ isFormValid(form.formData)
    /\ form.verificationStatus.isValid = "true"
    /\ AtRest(Page)
    /\ Len(rows) < MaxSaved
    /\ tasks' = [tasks EXCEPT ![Page] = Task("saveCredentials", "update",
                                             form.formData, Return(NoValue))]
    /\ UNCHANGED <<form, rows, flights, verified, credentials, baseURL>>
    /\ FormOnly

\* Index.handleCredentialsSet after saveCredentials: the saved credentials
\* become the client's
SetupSubmitSettled ==
    /\ form.page = "ApiKeySetup"
    /\ About(Page, "saveCredentials", "done")
    /\ IF tasks[Page].result.kind = "return"
       THEN /\ credentials' = tasks[Page].creds
            /\ baseURL' = IF tasks[Page].creds.sandbox THEN OkxURL ELSE baseURL
       ELSE UNCHANGED <<credentials, baseURL>>
    /\ tasks' = [tasks EXCEPT ![Page] = Idle]
    /\ UNCHANGED <<form, rows, flights, verified>>
    /\ FormOnly

----------------------------------------------------------------------------
(* The form specification: one of the two forms on screen, the user typing, *)
(* verifying, saving and deleting while responses are on their way          *)

ApiKeyEdits == {KeyTest}
SecretKeyEdits == {Rep("s", 44), Rep("t", 44), Rep("s", 19)}
PassphraseEdits == {Rep("p", 17)}

\* how a verification request settles
FlightOutcomes ==
    {Resolve(EnvOk), Resolve(EnvRejected),
     Reject(TransportError(Str("ERR_NETWORK"), "Network Error"))}

\* CredentialsConfig just mounted, its loadCredentials under way, or
\* ApiKeySetup just mounted without credentials
FormSpecInit ==
    /\ QuantInit
    /\ credentials = Null
    /\ baseURL = OkxURL
    /\ clock = 0
    /\ call = Call("constructor", NoArg, NoNet)
    /\ sent = <<>>
    /\ signed = <<>>
    /\ result = Return(NoValue)
    /\ vIn = CredsValid
    /\ vOut = NotValidated
    /\ rows = <<>>
    /\ flights = <<>>
    /\ verified = {}
    /\ \/ /\ form = Form("CredentialsConfig", EmptyForm, NotVerified, FALSE, FALSE,
                          TRUE, FALSE)
          /\ tasks = [p \in {Page} |->
                         Task("getUserCredentials", "select", Null, Return(NoValue))]
       \/ /\ form = Form("ApiKeySetup", EmptyForm, NotVerified, FALSE, FALSE,
                          FALSE, FALSE)
          /\ tasks = [p \in {Page} |-> Idle]

FormNext ==
    \/ HandleInputChange("apiKey", ApiKeyEdits)
    \/ HandleInputChange("secretKey", SecretKeyEdits)
    \/ HandleInputChange("passphrase", PassphraseEdits)
    \/ ConfigHandleVerify
    \/ SetupHandleVerify
    \/ VerifySettled(FlightOutcomes)
    \/ ConfigHandleSave
    \/ ConfigSaveSettled
    \/ ConfigLoadSettled
    \/ ConfigHandleDelete
    \/ ConfigDeleteSettled
    \/ SetupHandleSubmit
    \/ SetupSubmitSettled
    \/ SelectActive(Page)
    \/ SaveUpdate(Page)
    \/ SaveInsert(Page)
    \/ DeleteUpdate(Page)

FormSpec == FormSpecInit /\ [][FormNext]_vars

----------------------------------------------------------------------------
(* What the claims speak of, stated without the code's own helpers *)

AllWhite(s) == \A i \in 1..Len(s) : s[i] \in WhiteSpace

\* s without its leading and trailing white space
TrimmedText(s) ==
    IF AllWhite(s) THEN <<>>
    ELSE LET first == CHOOSE i \in 1..Len(s) :
                        s[i] \notin WhiteSpace /\ \A k \in 1..(i - 1) : s[k] \in WhiteSpace
             last == CHOOSE j \in 1..Len(s) :
                        s[j] \notin WhiteSpace
                        /\ \A k \in (j + 1)..Len(s) : s[k] \in WhiteSpace
         IN  SubSeq(s, first, last)

HexRun(s, from, to) == \A i \in from..to : s[i] \in HexDigit

\* 8-4-4-4-12 hexadecimal digits of either case, joined by dashes
IsUuid(s) ==
    /\ Len(s) = 36
    /\ HexRun(s, 1, 8) /\ s[9] = "-"
    /\ HexRun(s, 10, 13) /\ s[14] = "-"
    /\ HexRun(s, 15, 18) /\ s[19] = "-"
    /\ HexRun(s, 20, 23) /\ s[24] = "-"
    /\ HexRun(s, 25, 36)

AnyFieldEmpty(c) ==
    AllWhite(c.apiKey) \/ AllWhite(c.secretKey) \/ AllWhite(c.passphrase)
SecretLongEnough(c) == Len(TrimmedText(c.secretKey)) >= 20
PassphraseInRange(c) ==
    Len(TrimmedText(c.passphrase)) >= 1 /\ Len(TrimmedText(c.passphrase)) <= 30

----------------------------------------------------------------------------
(* Claims on format validation (ValidateSpec) *)

\* C1: a record with a field that is empty after trimming fails both validators
\* with the incomplete-fields reason, whatever is wrong with the other fields.
C1_IncompleteFirst ==
    (vOut.ran /\ AnyFieldEmpty(vIn)) =>
        /\ vOut.service = Invalid(<<ErrIncomplete>>)
        /\ vOut.client = Invalid(<<ErrIncomplete>>)

\* an empty passphrase beside a malformed key and a short secret
C1_Witness ==
    /\ vOut.ran
    /\ AllWhite(vIn.passphrase)
    /\ ~AllWhite(vIn.apiKey) /\ ~IsUuid(TrimmedText(vIn.apiKey))
    /\ ~AllWhite(vIn.secretKey) /\ ~SecretLongEnough(vIn)
    /\ vOut.service.error = <<ErrIncomplete>>

\* C2 as stated: every record whose apiKey does not match the UUID pattern fails
\* with the bad-API-key-format reason, whatever the other two fields are.
C2_Original ==
    (vOut.ran /\ ~IsUuid(vIn.apiKey)) =>
        /\ vOut.service = Invalid(<<ErrApiKeyFormatService>>)
        /\ vOut.client = Invalid(<<ErrApiKeyFormatClient>>)

\* C2 as amended: when no field is empty after trimming and the trimmed apiKey
\* does not match the UUID pattern, both validators fail with their
\* bad-API-key-format reason, whatever the lengths of secret and passphrase.
C2_BadApiKey ==
    (vOut.ran /\ ~AnyFieldEmpty(vIn) /\ ~IsUuid(TrimmedText(vIn.apiKey))) =>
        /\ vOut.service = Invalid(<<ErrApiKeyFormatService>>)
        /\ vOut.client = Invalid(<<ErrApiKeyFormatClient>>)

\* a malformed key beside a short secret and a long passphrase
C2_Witness ==
    /\ vOut.ran
    /\ ~AnyFieldEmpty(vIn)
    /\ ~IsUuid(TrimmedText(vIn.apiKey))
    /\ ~SecretLongEnough(vIn) /\ ~PassphraseInRange(vIn)
    /\ vOut.client.error = <<ErrApiKeyFormatClient>>

\* the verdict the four ordered checks give, errApiKey being the validator's
\* wording of the second reason
C3_Expected(c, errApiKey) ==
    IF AnyFieldEmpty(c) THEN Invalid(<<ErrIncomplete>>)
    ELSE IF ~IsUuid(TrimmedText(c.apiKey)) THEN Invalid(<<errApiKey>>)
    ELSE IF ~SecretLongEnough(c) THEN Invalid(<<ErrSecretKeyLength>>)
    ELSE IF ~PassphraseInRange(c) THEN Invalid(<<ErrPassphraseLength>>)
    ELSE Valid

\* C3: validation succeeds exactly when all four checks pass, and otherwise
\* returns the single reason of the first failing check, in the order
\* incomplete fields, API key format, secret length, passphrase length.
C3_FirstFailingCheck ==
    vOut.ran =>
        /\ vOut.service = C3_Expected(vIn, ErrApiKeyFormatService)
        /\ vOut.client = C3_Expected(vIn, ErrApiKeyFormatClient)
        /\ vOut.service.isValid <=>
             (~AnyFieldEmpty(vIn) /\ IsUuid(TrimmedText(vIn.apiKey))
              /\ SecretLongEnough(vIn) /\ PassphraseInRange(vIn))
        /\ ~vOut.service.isValid => Len(vOut.service.error) = 1
        /\ ~vOut.client.isValid => Len(vOut.client.error) = 1

\* a record that is valid only because its fields are trimmed before measuring
C3_Witness ==
    /\ vOut.ran
    /\ vOut.service.isValid /\ vOut.client.isValid
    /\ Len(vIn.passphrase) > 30
    /\ vIn.apiKey # TrimmedText(vIn.apiKey)

----------------------------------------------------------------------------
(* Claims on verifyCredentials (Spec) *)

Verifying == call.op = "verifyCredentials"

\* C4: when the stored credentials fail format validation, verifyCredentials
\* returns that validation's failure and issues no network request.
C4_FormatBeforeNetwork ==
    (Verifying /\ credentials # Null
       /\ ~C3_Expected(credentials, ErrApiKeyFormatClient).isValid) =>
        /\ result = Return(C3_Expected(credentials, ErrApiKeyFormatClient))
        /\ sent = <<>>

\* stored credentials with a secret of 19 characters
C4_Witness ==
    /\ Verifying
    /\ credentials = CredsShortSecret
    /\ result = Return(Invalid(<<ErrSecretKeyLength>>))
    /\ sent = <<>>

\* C5: when the verification request gets a response envelope, the verdict is
\* valid exactly when the envelope's code is the string "0"; otherwise the
\* reason holds the venue's code and, when it gave one, the venue's message.
C5_VerdictFromCode ==
    (Verifying /\ call.net.kind = "resolve" /\ call.net.data # NoBody) =>
        LET envelope == call.net.data IN
        /\ result.kind = "return"
        /\ result.value.isValid <=> envelope.code = Str("0")
        /\ ~result.value.isValid =>
             /\ envelope.code # Undefined =>
                  Contains(result.value.error, envelope.code.v)
             /\ (envelope.msg.t = "str" /\ envelope.msg.v # "") =>
                  Contains(result.value.error, envelope.msg.v)

\* the venue answers 50001, API key not found
C5_Witness ==
    /\ Verifying
    /\ call.net = Resolve(EnvRejected)
    /\ Len(sent) = 1
    /\ ~result.value.isValid
    /\ Contains(result.value.error, "50001")
    /\ Contains(result.value.error, "API key not found")

\* C6: verifyCredentials never throws, and a failed request gives invalid with
\* the reason of its class: 401 authentication failed (with the venue's
\* message if any), 403 insufficient permissions, another status a reason with
\* the status and the venue's message, ENOTFOUND or ETIMEDOUT without a
\* response network failure, any other error a generic error reason.
C6_FailureClasses ==
    Verifying =>
        /\ result.kind = "return"
        /\ call.net.kind = "reject" =>
             LET e == call.net.error
                 reason == result.value.error
                 venueMsg == IF e.response.data = NoBody THEN Undefined
                             ELSE e.response.data.msg
             IN  /\ ~result.value.isValid
                 /\ IF e.response # NoResponse
                    THEN /\ venueMsg.t = "str" /\ venueMsg.v # ""
                              /\ e.response.status # Num("403")
                              => Contains(reason, venueMsg.v)
                         /\ e.response.status = Num("401") => reason[1] = ErrAuthPrefix
                         /\ e.response.status = Num("403") => reason = <<ErrPermission>>
                         /\ e.response.status \notin {Num("401"), Num("403")}
                              => /\ reason[1] = ErrApiPrefix
                                 /\ Contains(reason, e.response.status.v)
                    ELSE IF e.code \in {Str("ENOTFOUND"), Str("ETIMEDOUT")}
                    THEN reason = <<ErrNetworkFailure>>
                    ELSE reason[1] \in {ErrNetworkCors, ErrVerifyGenericPrefix}

\* the venue answers HTTP 403
C6_Witness ==
    /\ Verifying
    /\ call.net.kind = "reject"
    /\ call.net.error.response # NoResponse
    /\ call.net.error.response.status = Num("403")
    /\ result = Return(Invalid(<<ErrPermission>>))

----------------------------------------------------------------------------
(* Claims on placeOrder (OrderSpec) *)

PlacingOrder == call.op = "placeOrder"

\* the id has two parts and contains -USD (and so also when it contains -USDT)
IsSpotPair(instId) ==
    /\ Cardinality({i \in 1..Len(instId) : instId[i] = "-"}) = 1
    /\ \E i \in 1..Len(instId) :
          /\ i + 3 <= Len(instId)
          /\ instId[i] = "-" /\ instId[i + 1] = "U"
          /\ instId[i + 2] = "S" /\ instId[i + 3] = "D"

HasPrice(order) == order.px.t = "str" /\ order.px.v # ""
BreaksSpotRule(order) == IsSpotPair(order.instId) /\ order.tdMode # "cash"
BreaksLimitRule(order) == order.ordType \in {"limit", "post_only"} /\ ~HasPrice(order)
BreaksMarketRule(order) == order.ordType = "market" /\ HasPrice(order)

\* C7: with credentials set, an order on a two-part -USDT / -USD pair in a
\* trade mode other than cash fails with the spot/cash reason; nothing is
\* sent and nothing is signed.
C7_SpotNeedsCash ==
    (PlacingOrder /\ credentials # Null /\ BreaksSpotRule(call.arg)) =>
        /\ result = Throw(Error(<<ErrSpotCash>>))
        /\ sent = <<>>
        /\ signed = <<>>

\* placeOrder({instId: 'BTC-USDT', tdMode: 'cross', ordType: 'market', ...})
C7_Witness ==
    /\ PlacingOrder /\ credentials # Null
    /\ call.arg.instId = InstBtcUsdt /\ call.arg.tdMode = "cross"
    /\ call.arg.ordType = "market" /\ call.arg.px = Undefined
    /\ result = Throw(Error(<<ErrSpotCash>>))

\* C8 as stated: with credentials set, every limit-class order without a price
\* fails with the limit-orders-require-a-price reason and sends nothing.
C8_Original ==
    (PlacingOrder /\ credentials # Null /\ BreaksLimitRule(call.arg)) =>
        /\ result = Throw(Error(<<ErrLimitNeedsPrice>>))
        /\ sent = <<>>

\* C8 as amended: a limit-class order without a price always fails locally,
\* nothing being sent; with credentials set the reason is the price reason
\* unless the order also breaks the spot/cash rule, whose reason comes first.
C8_LimitNeedsPrice ==
    (PlacingOrder /\ BreaksLimitRule(call.arg)) =>
        /\ result.kind = "throw"
        /\ sent = <<>>
        /\ credentials # Null =>
             result = Throw(Error(<<IF BreaksSpotRule(call.arg)
                                    THEN ErrSpotCash ELSE ErrLimitNeedsPrice>>))

\* placeOrder({instId: 'BTC-USDT', tdMode: 'cash', ordType: 'limit', ...}), no px
C8_Witness ==
    /\ PlacingOrder /\ credentials # Null
    /\ call.arg.instId = InstBtcUsdt /\ call.arg.tdMode = "cash"
    /\ call.arg.ordType = "limit" /\ call.arg.px = Undefined
    /\ result = Throw(Error(<<ErrLimitNeedsPrice>>))
    /\ sent = <<>>

\* C9: a market order that carries a price fails locally, nothing being sent,
\* and placeOrder sends a request only for an order that keeps all three rules.
C9_OnlyCompatibleOrdersSent ==
    PlacingOrder =>
        /\ BreaksMarketRule(call.arg) => result.kind = "throw" /\ sent = <<>>
        /\ sent # <<>> =>
             /\ ~BreaksSpotRule(call.arg)
             /\ ~BreaksLimitRule(call.arg)
             /\ ~BreaksMarketRule(call.arg)

\* a market order with a price that breaks no other rule, credentials set
C9_Witness ==
    /\ PlacingOrder /\ credentials # Null
    /\ call.arg.ordType = "market" /\ HasPrice(call.arg)
    /\ ~BreaksSpotRule(call.arg)
    /\ result = Throw(Error(<<ErrMarketNoPrice>>))
    /\ sent = <<>>

----------------------------------------------------------------------------
(* Claims on the client before setCredentials (Spec) *)

AuthenticatedOps ==
    {"getAccountBalance", "placeOrder", "getTradingAccount", "getOrderHistory",
     "getHeaders"}

\* C10: before setCredentials every authenticated operation, header building
\* included, throws credentials-not-set and sends nothing; verifyCredentials
\* returns invalid with that reason.
C10_CredentialsNotSet ==
    credentials = Null =>
        /\ call.op \in AuthenticatedOps =>
             result = Throw(Error(<<ErrCredentialsNotSet>>)) /\ sent = <<>>
        /\ Verifying =>
             result = Return(Invalid(<<ErrCredentialsNotSet>>)) /\ sent = <<>>

\* an order breaking the spot/cash rule, placed before setCredentials
C10_Witness ==
    /\ credentials = Null
    /\ call.op = "placeOrder"
    /\ BreaksSpotRule(call.arg)
    /\ result = Throw(Error(<<ErrCredentialsNotSet>>))

----------------------------------------------------------------------------
(* Signed requests *)

\* the query string axios appends to the URL for these params
QueryString(params) ==
    IF params = <<>> THEN ""
    ELSE "?" \o params[1].name \o "=" \o params[1].value

\* the request target of a request as it goes on the wire: path and query
RequestTarget(req) == req.path \o QueryString(req.params)

\* the last invocation sent a request carrying the signed headers
SentSigned == sent # <<>> /\ sent[1].headers # NoHeaders

\* C11: for every signed request sent, the signed string is the timestamp,
\* the upper-cased method, the path and the body of the request as sent, the
\* query string of a filtered getOrderHistory included in what is sent.
C11_SignedMatchesSent ==
    SentSigned =>
        /\ Len(signed) = 1
        /\ signed[1].signature.hmac =
               sent[1].headers.timestamp \o Join(ToUpperCase(sent[1].method))
                   \o RequestTarget(sent[1]) \o sent[1].body

\* the header sets the last invocation built: those of the signed request it
\* sent, or those getHeaders returned to its caller
BuiltHeaders ==
    IF SentSigned THEN {sent[1].headers}
    ELSE IF call.op = "getHeaders" /\ result.kind = "return" THEN {result.value}
    ELSE {}

HeaderNames == {"key", "sign", "timestamp", "passphrase", "contentType"}

\* the header set is complete and its timestamp is the one that was signed
HeadersComplete(h) ==
    /\ DOMAIN h = HeaderNames
    /\ h.contentType = "application/json"
    /\ Len(signed) = 1
    /\ h.timestamp = signed[1].timestamp
    /\ h.sign = signed[1].signature
    /\ h.sign.hmac = h.timestamp \o Join(ToUpperCase(signed[1].method))
                         \o signed[1].requestPath \o signed[1].body

\* C12 as stated: every header set built for a signed call is complete, its
\* access key and passphrase are the stored ones, and its timestamp is the
\* signed one.
C12_Original ==
    \A h \in BuiltHeaders :
        /\ HeadersComplete(h)
        /\ h.key = credentials.apiKey
        /\ h.passphrase = credentials.passphrase

\* C12: every header set built for a signed call is complete, its access key
\* and passphrase are the stored ones with surrounding white space removed,
\* and its timestamp is the one the signature was computed over.
C12_HeadersFromCredentials ==
    \A h \in BuiltHeaders :
        /\ HeadersComplete(h)
        /\ h.key = TrimmedText(credentials.apiKey)
        /\ h.passphrase = TrimmedText(credentials.passphrase)

\* a signed request went out under credentials stored with surrounding white
\* space
C12_Witness ==
    /\ SentSigned
    /\ credentials.apiKey # TrimmedText(credentials.apiKey)
    /\ credentials.passphrase # TrimmedText(credentials.passphrase)
    /\ sent[1].headers.key = KeyTest

----------------------------------------------------------------------------
(* Determinism and sensitivity of the signature *)

SignComponents == {"timestamp", "method", "requestPath", "body", "secretKey"}

\* the components in which two signature computations differ
Differing(a, b) == {c \in SignComponents : a[c] # b[c]}

\* two methods that differ at most in letter case
SameUpToCase(m, n) ==
    /\ Len(m) = Len(n)
    /\ \A i \in 1..Len(m) :
           \/ m[i] = n[i]
           \/ \E k \in 1..Len(LowerCase) :
                  {m[i], n[i]} = {LowerCase[k], UpperCase[k]}

C13_BoundaryCollision ==
    /\ Len(vOut) = 2
    /\ Differing(vOut[1], vOut[2]) = {"requestPath", "body"}
    /\ vOut[1].signature = vOut[2].signature

----------------------------------------------------------------------------
(* The trading signal *)

\* the last operation on the engine was generateTradingSignal
Signalled == quantCall.op = "generateTradingSignal"

\* C14: the action is buy exactly when the score is above 2, sell exactly
\* when it is below -2 and hold otherwise, a score of exactly 2 or -2
\* included; the confidence is min(|score| / 5, 1), hence between 0 and 1;
\* the quantity is maxPositionSize * confidence, hence at most
\* maxPositionSize.
C14_Thresholds ==
    Signalled =>
        LET score == quantCall.trace.score
            signal == quantCall.value
            maxPositionSize == quantCall.before.config.maxPositionSize
        IN  /\ signal.action = "buy" <=> score > 200
            /\ signal.action = "sell" <=> score < -200
            /\ signal.action = "hold" <=> (-200 <= score /\ score <= 200)
            /\ IF Abs(score) <= 500 THEN signal.confidence * 5 = Abs(score)
               ELSE signal.confidence = 100
            /\ 0 <= signal.confidence /\ signal.confidence <= 100
            /\ signal.quantity = maxPositionSize * signal.confidence
            /\ signal.quantity <= maxPositionSize * 100

\* a score of exactly 2, reached as 2.5 * 0.8 or without the volatility
\* factor, held at confidence 0.4
C14_Witness ==
    /\ Signalled
    /\ quantCall.trace.score = 200
    /\ quantCall.value.action = "hold"
    /\ quantCall.value.confidence = 40
    /\ quantCall.value.quantity = 40 * quantCall.before.config.maxPositionSize

\* the rule table: for the indicators and the current price of a call, each
\* additive rule with its condition, its delta in hundredths and its tag, in
\* the order RSI, MACD, Bollinger, MA
RuleTable(ind, price) ==
    <<[on |-> ind.rsi < 3000, delta |-> 200, tag |-> TagRsiOversold],
      [on |-> ind.rsi > 7000, delta |-> -200, tag |-> TagRsiOverbought],
      [on |-> ind.macd.histogram > 0 /\ ind.macd.macd > ind.macd.signal,
       delta |-> 150, tag |-> TagMacdBullish],
      [on |-> ind.macd.histogram < 0 /\ ind.macd.macd < ind.macd.signal,
       delta |-> -150, tag |-> TagMacdBearish],
      [on |-> price < ind.bollinger.lower, delta |-> 100, tag |-> TagNearLowerBand],
      [on |-> price > ind.bollinger.upper, delta |-> -100, tag |-> TagNearUpperBand],
      [on |-> ind.sma.sma20 > ind.sma.sma50 /\ ind.sma.sma50 > ind.sma.sma200,
       delta |-> 100, tag |-> TagBullishAlignment],
      [on |-> ind.sma.sma20 < ind.sma.sma50 /\ ind.sma.sma50 < ind.sma.sma200,
       delta |-> -100, tag |-> TagBearishAlignment]>>

\* the rules of a table that triggered, in the table's order
Triggered(table) == SelectSeq(table, LAMBDA rule : rule.on)

RECURSIVE DeltaSum(_)
DeltaSum(rules) ==
    IF rules = <<>> THEN 0 ELSE rules[1].delta + DeltaSum(Tail(rules))

RECURSIVE CommaJoined(_)
\* the tags of the rules, then of the volatility factor if it applied,
\* separated by ", "
CommaJoined(tags) ==
    IF tags = <<>> THEN ""
    ELSE LET front == CommaJoined(SubSeq(tags, 1, Len(tags) - 1))
         IN  IF front = "" THEN tags[Len(tags)]
             ELSE front \o ", " \o tags[Len(tags)]

\* C15: the score is the sum of the deltas of the triggered rules (within
\* each pair at most one triggers), times 0.8 when volatility > 5; reasoning
\* is the comma-joined tags of exactly the triggered rules in the order RSI,
\* MACD, Bollinger, MA, volatility.
C15_ScoreAndReasoning ==
    Signalled =>
        LET table == RuleTable(quantCall.trace.indicators, quantCall.value.price)
            rules == Triggered(table)
            dampened == quantCall.trace.indicators.volatility > 500
            tags == [i \in 1..Len(rules) |-> rules[i].tag]
        IN  /\ \A k \in {1, 3, 5, 7} : ~(table[k].on /\ table[k + 1].on)
            /\ IF dampened THEN quantCall.trace.score * 10 = DeltaSum(rules) * 8
               ELSE quantCall.trace.score = DeltaSum(rules)
            /\ quantCall.value.reasoning =
                   CommaJoined(IF dampened THEN tags \o <<TagHighVolatility>> ELSE tags)

\* three additive rules triggered and the volatility factor applied
C15_Witness ==
    /\ Signalled
    /\ Len(Triggered(RuleTable(quantCall.trace.indicators, quantCall.value.price))) >= 3
    /\ quantCall.trace.indicators.volatility > 500
    /\ quantCall.trace.score # 0

----------------------------------------------------------------------------
(* The rolling history *)

\* C17: in every state reached by addMarketData and updateConfig calls the
\* price history holds at most 2 * lookback samples, lookback being the
\* configured value.
C17_HistoryBounded == Len(priceHistory) <= 2 * config.lookback

\* the same in the states addMarketData leaves under a positive lookback
C17_AfterAdding ==
    quantCall.op = "addMarketData" /\ config.lookback > 0
        => Len(priceHistory) <= 2 * config.lookback

\* the last n entries of a sequence, n entries at most
Recent(s, n) == [i \in 1..(IF n < Len(s) THEN n ELSE Len(s)) |->
                    s[Len(s) - (IF n < Len(s) THEN n ELSE Len(s)) + i]]

\* what the claim has addMarketData leave of a history: the sample appended,
\* and the lookback most recent entries kept if that makes more than
\* 2 * lookback
Kept(history, sample, lookback) ==
    IF Len(history) + 1 > 2 * lookback THEN Recent(Append(history, sample), lookback)
    ELSE Append(history, sample)

\* s is the suffix of length n of t
SuffixOf(s, n, t) == n = Len(s) /\ n <= Len(t) /\ s = Recent(t, n)

\* C18: addMarketData appends the sample; when the length then exceeds
\* 2 * lookback both histories are replaced by their lookback most recent
\* entries, otherwise nothing is dropped; so the price history is a suffix of
\* all prices added and the volume history the suffix of the same length of
\* all volumes added.
C18_AppendAndTrim ==
    /\ quantCall.op = "addMarketData" =>
         /\ priceHistory = Kept(quantCall.before.priceHistory, quantCall.arg.price,
                                quantCall.before.config.lookback)
         /\ volumeHistory = Kept(quantCall.before.volumeHistory, quantCall.arg.volume,
                                 quantCall.before.config.lookback)
    /\ SuffixOf(priceHistory, Len(priceHistory), added.prices)
    /\ SuffixOf(volumeHistory, Len(priceHistory), added.volumes)

\* the same under a positive lookback
C18_PositiveLookback ==
    /\ quantCall.op = "addMarketData" /\ quantCall.before.config.lookback > 0 =>
         /\ priceHistory = Kept(quantCall.before.priceHistory, quantCall.arg.price,
                                quantCall.before.config.lookback)
         /\ volumeHistory = Kept(quantCall.before.volumeHistory, quantCall.arg.volume,
                                 quantCall.before.config.lookback)
    /\ SuffixOf(priceHistory, Len(priceHistory), added.prices)
    /\ SuffixOf(volumeHistory, Len(priceHistory), added.volumes)

\* a trim happened: five samples added, the last two kept
C18_Trimmed ==
    /\ quantCall.op = "addMarketData"
    /\ quantCall.before.config.lookback = 2
    /\ Len(quantCall.before.priceHistory) = 4
    /\ Len(priceHistory) = 2

----------------------------------------------------------------------------
(* The relative strength index *)

\* the last operation on the engine was calculateRSI()
RsiComputed == quantCall.op = "calculateRSI"

\* C19: calculateRSI() returns exactly 50 on every price history of at most
\* 14 samples.
C19_NeutralBelowFifteen ==
    RsiComputed /\ Len(priceHistory) <= 14 => quantCall.value.rsi = 5000

\* the neutral value returned on 14 samples that are not all equal
C19_Witness ==
    /\ RsiComputed
    /\ Len(priceHistory) = 14
    /\ priceHistory[1] # priceHistory[14]
    /\ quantCall.value.rsi = 5000

\* no price of the last 14 differences of h is below the one before it
NoLossLately(h) == \A i \in (Len(h) - 14)..(Len(h) - 1) : h[i + 1] >= h[i]

\* C20: on a history of at least 15 samples whose last 14 differences hold
\* no loss calculateRSI() returns exactly 100, and its result is that on the
\* last 15 samples alone: only the last 14 differences count.
C20_NoLossIsHundred ==
    RsiComputed /\ Len(priceHistory) >= 15 =>
        /\ NoLossLately(priceHistory) => quantCall.value.rsi = 10000
        /\ quantCall.value.rsi = calculateRSI(Recent(priceHistory, 15), 14)

\* 100 returned on a history that fell before its last 14 differences and
\* rose in them
C20_Witness ==
    /\ RsiComputed
    /\ Len(priceHistory) >= 17
    /\ priceHistory[2] < priceHistory[1]
    /\ NoLossLately(priceHistory)
    /\ priceHistory[Len(priceHistory)] > priceHistory[Len(priceHistory) - 1]
    /\ quantCall.value.rsi = 10000

----------------------------------------------------------------------------
(* Purity of the signal *)

\* the operation just run left the engine's fields as they were
FieldsKept == Engine(config, priceHistory, volumeHistory) = quantCall.before

\* two signals equal in everything but the timestamp
SameSignal(s, t) ==
    /\ s.action = t.action
    /\ s.confidence = t.confidence
    /\ s.price = t.price
    /\ s.quantity = t.quantity
    /\ s.reasoning = t.reasoning

\* C16 as stated: two calls of generateTradingSignal with no sample added in
\* between return the same action, confidence, price, quantity and
\* reasoning, and neither generateTradingSignal nor getMarketIndicators
\* changes the price history, the volume history or the config.
C16_Original ==
    /\ quantCall.op \in {"generateTradingSignal", "getMarketIndicators"} => FieldsKept
    /\ Len(signals) = 2
         /\ signals[1].engine.priceHistory = signals[2].engine.priceHistory
         /\ signals[1].engine.volumeHistory = signals[2].engine.volumeHistory
         => SameSignal(signals[1].signal, signals[2].signal)

\* C16: two calls of generateTradingSignal with no sample added and no
\* config update in between return the same action, confidence, price,
\* quantity and reasoning, and neither generateTradingSignal nor
\* getMarketIndicators changes the price history, the volume history or the
\* config.
C16_PureInHistoryAndConfig ==
    /\ quantCall.op \in {"generateTradingSignal", "getMarketIndicators"} => FieldsKept
    /\ Len(signals) = 2 /\ signals[1].engine = signals[2].engine
         => SameSignal(signals[1].signal, signals[2].signal)

\* two calls on the same history and config, at different times, the second
\* one just made, returning a signal that is not hold
C16_Witness ==
    /\ Signalled
    /\ Len(signals) = 2
    /\ signals[1].engine = signals[2].engine
    /\ signals[1].signal.timestamp # signals[2].signal.timestamp
    /\ signals[2].signal = quantCall.value
    /\ quantCall.value.action # "hold"
    /\ Len(priceHistory) >= 50

----------------------------------------------------------------------------
(* Fallbacks on a short history *)

\* the latest sample of a history, 0 when there is none, in hundredths
LatestPrice(h) == IF h = <<>> THEN 0 ELSE Fixed(h[Len(h)])

\* the history an indicator was computed on
IndicatorHistory == quantCall.before.priceHistory

\* C21: on a history too short for it, each indicator returns its fallback
\* and raises nothing: the MACD is {0, 0, 0} below 26 samples; the three
\* bands are the latest price below 20 samples; sma(period) and ema(period)
\* are the latest price below period samples; the volatility is 0 below 20
\* samples; and the latest price of an empty history is 0.
C21_Fallbacks ==
    LET h == IndicatorHistory
        value == quantCall.value
    IN  /\ quantCall.op = "calculateMACD" /\ Len(h) < 26
            => value = [macd |-> 0, signal |-> 0, histogram |-> 0]
        /\ quantCall.op = "calculateBollingerBands" /\ Len(h) < 20
            => value = [upper |-> LatestPrice(h), middle |-> LatestPrice(h),
                        lower |-> LatestPrice(h)]
        /\ quantCall.op = "calculateSMA" /\ Len(h) < quantCall.arg.period
            => value = [sma |-> LatestPrice(h)]
        /\ quantCall.op = "calculateEMA" /\ Len(h) < quantCall.arg.period
            => value = [ema |-> LatestPrice(h)]
        /\ quantCall.op = "calculateVolatility" /\ Len(h) < 20
            => value = [volatility |-> 0]
        /\ quantCall.op \in {"calculateSMA", "calculateEMA"} /\ h = <<>>
            => value \in {[sma |-> 0], [ema |-> 0]}

\* a moving average fell back to the latest price of a history of 16 samples
\* that is not the average of those samples
C21_Witness ==
    /\ quantCall.op = "calculateSMA"
    /\ quantCall.arg.period = 20
    /\ Len(IndicatorHistory) = 16
    /\ quantCall.value = [sma |-> LatestPrice(IndicatorHistory)]
    /\ quantCall.value.sma # Quot(Fixed(Sum(IndicatorHistory)), 16)

----------------------------------------------------------------------------
(* The ticker *)

FetchingTicker == call.op = "getMarketData"

\* the venue answered with an envelope; its code is the string "0" and its
\* data array has an element
Answered == call.net.kind = "resolve" /\ call.net.data # NoBody
TickerFound ==
    /\ Answered
    /\ call.net.data.code = Str("0")
    /\ call.net.data.data.t = "arr"
    /\ call.net.data.data.items # <<>>

\* one GET of the ticker endpoint with the instrument id as its query, no
\* headers, nothing signed
TickerRequest ==
    /\ Len(sent) = 1
    /\ sent[1].method = MethodGet
    /\ sent[1].base = baseURL
    /\ sent[1].path = TickerPath
    /\ sent[1].params = <<[name |-> "instId", value |-> Join(call.arg.instId)]>>
    /\ sent[1].headers = NoHeaders
    /\ signed = <<>>

----------------------------------------------------------------------------
(* Failures of the network *)

NetworkOps ==
    {"verifyCredentials", "getMarketData", "getAccountBalance", "placeOrder",
     "getTradingAccount", "getOrderHistory"}

\* the request of the invocation failed: axios rejected, with an HTTP error
\* response or with none
RequestFailed == call.op \in NetworkOps /\ call.net.kind = "reject"

\* what reached the caller is the client's own failure: a returned verdict
\* with a reason, or an Error the client built, and not the error axios
\* rejected with
Normalized ==
    \/ result.kind = "return" /\ ~result.value.isValid
    \/ result.kind = "throw" /\ result.error.name = "Error"
                             /\ result.error # call.net.error

\* C23: whenever the request of a client operation fails (transport failure
\* or HTTP error), the caller receives a normalized failure, never the raw
\* transport exception.
C23_FailuresNormalized == RequestFailed => Normalized

\* C24: no invocation of a client operation issues more than one network
\* request, however that request ends; a second request takes a second
\* invocation.
C24_NoRetry == call.op \in NetworkOps => Len(sent) <= 1

\* a balance request failed in transport, and it was the only request
C24_Witness ==
    /\ call.op = "getAccountBalance"
    /\ call.net = Reject(TransportError(Str("ERR_NETWORK"), "Network Error"))
    /\ result.kind = "throw"
    /\ Len(sent) = 1

\* C25: every request the client issues carries an explicit timeout of 10 to
\* 15 seconds.
C25_TimeoutOnEveryRequest ==
    \A i \in DOMAIN sent :
        /\ sent[i].timeout.set
        /\ sent[i].timeout.ms >= 10000
        /\ sent[i].timeout.ms <= 15000

----------------------------------------------------------------------------
(* Two header builds *)

\* the last two header builds had the same credentials, method, path and body
SameBuildTwice ==
    /\ Len(vOut) = 2
    /\ vOut[1].credentials = vOut[2].credentials
    /\ vOut[1].method = vOut[2].method
    /\ vOut[1].requestPath = vOut[2].requestPath
    /\ vOut[1].body = vOut[2].body

\* C27 as stated: two header builds with unchanged credentials, method, path
\* and body have different timestamps and different signatures.
C27_Original ==
    SameBuildTwice =>
        /\ vOut[1].headers.timestamp # vOut[2].headers.timestamp
        /\ vOut[1].headers.sign # vOut[2].headers.sign

\* C27 (amended): every header build carries the wall clock's reading at the
\* moment of the build, to the millisecond; two builds with unchanged
\* credentials, method, path and body have different timestamps and
\* signatures when the clock's reading changed between them, and the same
\* timestamp and signature when both fall in one millisecond.
C27_FreshTimestamp ==
    /\ \A i \in DOMAIN vOut : vOut[i].headers.timestamp = ToISOString(vOut[i].at)
    /\ SameBuildTwice =>
         IF vOut[1].at # vOut[2].at
         THEN /\ vOut[1].headers.timestamp # vOut[2].headers.timestamp
              /\ vOut[1].headers.sign # vOut[2].headers.sign
         ELSE vOut[1].headers = vOut[2].headers

\* two builds a millisecond apart, with different signatures
C27_Witness ==
    /\ SameBuildTwice
    /\ vOut[1].at = 0
    /\ vOut[2].at = 1
    /\ vOut[1].headers.sign # vOut[2].headers.sign

----------------------------------------------------------------------------
(* The credential store *)

\* no call of the service is in progress
Quiescent == \A p \in DOMAIN tasks : AtRest(p)

\* the call of getUserCredentials that p made has ended
GotCredentials(p) == About(p, "getUserCredentials", "done")

\* C28: whenever no call is in progress, whatever the interleaving of the
\* saves and deletes before (two saves at once included), the table holds at
\* most one active row, and getUserCredentials never finds several: it
\* returns nothing or one stored record.
C28_OneActiveRow ==
    /\ Quiescent => Len(SelectSeq(rows, LAMBDA r : r.is_active)) <= 1
    /\ \A p \in DOMAIN tasks :
           GotCredentials(p) => tasks[p].result # Throw(PostgrestError("PGRST116"))

----------------------------------------------------------------------------
(* The credential forms *)

\* the status on screen is valid
ShowsVerified == form.page # "none" /\ form.verificationStatus.isValid = "true"

\* the rows saved, as credentials
Saved ==
    {[apiKey |-> rows[i].api_key, secretKey |-> rows[i].secret_key,
      passphrase |-> rows[i].passphrase, sandbox |-> rows[i].sandbox] :
        i \in DOMAIN rows}

\* C26: whenever a form shows the valid status, a verifyCredentials call made
\* with exactly the credentials now in the form found them valid, whatever
\* edits were made while the request was on its way; and the credentials
\* handed to saveCredentials by handleSave or submit, and the rows saved, are
\* credentials that such a call found valid.
C26_VerifiedMeansTheseCredentials ==
    /\ ShowsVerified => form.formData \in verified
    /\ \A p \in DOMAIN tasks :
           tasks[p].op = "saveCredentials" => tasks[p].creds \in verified
    /\ Saved \subseteq verified

----------------------------------------------------------------------------
(* The signal on a short history *)

\* the history the signal was computed on
SignalHistory == quantCall.before.priceHistory

\* C29: on fewer than 20 samples the MACD is zero, the bands and the three
\* moving averages are the latest price and the volatility is 0, so that only
\* the RSI rule can trigger: the action is hold, |score| <= 2 and the
\* confidence is at most 0.4; on fewer than 15 samples the score, the
\* confidence and the quantity are 0 and the reasoning is empty.
C29_ShortHistoryHolds ==
    Signalled /\ Len(SignalHistory) < 20 =>
        LET signal == quantCall.value
            ind == quantCall.trace.indicators
            score == quantCall.trace.score
            latest == IF SignalHistory = <<>> THEN 0
                      ELSE 100 * SignalHistory[Len(SignalHistory)]
        IN  /\ ind.macd = [macd |-> 0, signal |-> 0, histogram |-> 0]
            /\ ind.bollinger = [upper |-> latest, middle |-> latest, lower |-> latest]
            /\ ind.sma = [sma20 |-> latest, sma50 |-> latest, sma200 |-> latest]
            /\ ind.volatility = 0
            /\ signal.action = "hold"
            /\ score \in {-200, 0, 200}
            /\ signal.confidence <= 40
            /\ signal.reasoning \in {"", TagRsiOversold, TagRsiOverbought}
            /\ Len(SignalHistory) < 15 =>
                   /\ score = 0
                   /\ signal.confidence = 0
                   /\ signal.quantity = 0
                   /\ signal.reasoning = ""

\* fifteen rising prices: the RSI rule alone triggers, and the signal holds
C29_Witness ==
    /\ Signalled
    /\ Len(SignalHistory) = 15
    /\ quantCall.trace.score = -200
    /\ quantCall.value.reasoning = TagRsiOverbought
    /\ quantCall.value.action = "hold"

----------------------------------------------------------------------------
(* The two validators *)

\* the rule a validator's reason belongs to
RuleOf(verdict) ==
    IF verdict.isValid THEN "none"
    ELSE IF verdict.error = <<ErrIncomplete>> THEN "incomplete fields"
    ELSE IF verdict.error \in {<<ErrApiKeyFormatService>>, <<ErrApiKeyFormatClient>>}
    THEN "API key format"
    ELSE IF verdict.error = <<ErrSecretKeyLength>> THEN "secret key length"
    ELSE IF verdict.error = <<ErrPassphraseLength>> THEN "passphrase length"
    ELSE "other"

\* C30: on every credentials record the UI validator and the client's
\* validator give the same verdict and, when they reject, reject at the same
\* rule; so a record the UI validator accepts is accepted by the format check
\* inside verifyCredentials.
C30_ValidatorsAgree ==
    vOut.ran =>
        /\ vOut.service.isValid = vOut.client.isValid
        /\ RuleOf(vOut.service) = RuleOf(vOut.client)
        /\ RuleOf(vOut.service) # "other"
        /\ vOut.service.isValid => validateCredentialsFormat(vIn).isValid

\* both reject a record at the API key rule, each in its own words
C30_Witness ==
    /\ vOut.ran
    /\ RuleOf(vOut.service) = "API key format"
    /\ RuleOf(vOut.client) = "API key format"
    /\ vOut.service.error # vOut.client.error

====
